---- MODULE Spec2Model ----
(***************************************************************************)
(* Model of the rule engines and of the rule-application version chain of  *)
(* dev-aurifi-backend.                                                     *)
(*                                                                         *)
(*   SpecChain : the version chain manager of one transaction              *)
(*               (app/blueprints/transaction_dataset/views.py)             *)
(*   SpecApply : one project's apply_rules requests, the ApplyRule engine  *)
(*               (app/utils/apply_rule.py, app/blueprints/dataset/views.py)*)
(*   SpecMask  : the rule-group combinators as pure functions              *)
(*   SpecScenario : the ejection/inclusion scenario of spec section 8      *)
(***************************************************************************)
EXTENDS Integers, Sequences, FiniteSets, TLC

(***************************************************************************)
(* Bounds                                                                  *)
(***************************************************************************)
MaxVersions == 4

MaxConds == 3

(***************************************************************************)
(* Generic helpers                                                         *)
(***************************************************************************)
NoId == 0

EmptyMap == [x \in {} |-> 0]

NaN == -1

Put(f, k, v) == [x \in (DOMAIN f) \cup {k} |-> IF x = k THEN v ELSE f[x]]

Drop(f, S) == [x \in (DOMAIN f) \ S |-> f[x]]

Min(S) == CHOOSE x \in S : \A y \in S : x <= y

AllFalse(n) == [i \in 1..n |-> FALSE]

Count(mask) == Cardinality({i \in DOMAIN mask : mask[i]})

RECURSIVE SelectIdx(_, _, _)
SelectIdx(df, keep, i) ==
    IF i > Len(df) THEN <<>>
    ELSE IF keep[i] THEN <<df[i]>> \o SelectIdx(df, keep, i + 1)
    ELSE SelectIdx(df, keep, i + 1)

\* df[mask]: the rows whose mask entry is true, in order
Select(df, mask) == SelectIdx(df, mask, 1)

Not(mask) == [i \in DOMAIN mask |-> ~mask[i]]

(***************************************************************************)
(* Rules.  A condition is {column, operator, value, connector, then};      *)
(* "absent" stands for a missing then key.                                 *)
(***************************************************************************)
Cond(col, op, val, conn, th) ==
    [column |-> col, operator |-> op, value |-> val, connector |-> conn, then |-> th]

\* numeric comparisons of a cell with a literal; NaN satisfies only "not equal"
NumGt(cell, val) == cell # NaN /\ cell > val

NumLt(cell, val) == cell # NaN /\ cell < val

NumEq(cell, val) == cell # NaN /\ cell = val

NumNe(cell, val) == cell = NaN \/ cell # val

(***************************************************************************)
(* Chain rule engine (transaction_dataset/views.py).  A dataset is the     *)
(* sequence of the cells of its one column "amount"; NaN is a cell that    *)
(* pd.to_numeric coerces to NaN.                                           *)
(***************************************************************************)
TxColumns == {"amount"}

build_single_condition(df, rule) ==
    IF rule.column \notin TxColumns THEN AllFalse(Len(df))
    ELSE [i \in 1..Len(df) |->
            CASE rule.operator \in {"equal to", "equals"} -> NumEq(df[i], rule.value)
              [] rule.operator = "not equal to"           -> NumNe(df[i], rule.value)
              [] rule.operator = "greater than"           -> NumGt(df[i], rule.value)
              [] rule.operator = "less than"              -> NumLt(df[i], rule.value)
              [] OTHER                                    -> FALSE]

RECURSIVE build_condition_mask_upto(_, _, _)
build_condition_mask_upto(df, rule_group, i) ==
    IF i = 1 THEN build_single_condition(df, rule_group[1])
    ELSE LET mask == build_condition_mask_upto(df, rule_group, i - 1)
             condition == build_single_condition(df, rule_group[i])
             pending_connector == rule_group[i - 1].connector
         IN  [k \in 1..Len(df) |->
                IF pending_connector = "OR" THEN mask[k] \/ condition[k]
                ELSE mask[k] /\ condition[k]]

build_condition_mask_cur(df, rule_group) ==
    LET RECURSIVE Upto(_)
        Upto(i) ==
            IF i = 1 THEN build_single_condition(df, rule_group[1])
            ELSE LET mask == Upto(i - 1)
                     condition == build_single_condition(df, rule_group[i])
                 IN  [k \in 1..Len(df) |->
                        IF rule_group[i].connector = "OR" THEN mask[k] \/ condition[k]
                        ELSE mask[k] /\ condition[k]]
    IN  IF rule_group = <<>> THEN AllFalse(Len(df)) ELSE Upto(Len(rule_group))

build_condition_mask(df, rule_group) ==
    IF rule_group = <<>> THEN AllFalse(Len(df))
    ELSE build_condition_mask_upto(df, rule_group, Len(rule_group))

\* one iteration of the rule-group loop: the dataset it leaves
apply_rule_group(df, rule_group) ==
    IF rule_group = <<>> THEN df
    ELSE LET mask == build_condition_mask(df, rule_group)
             rule_type == rule_group[Len(rule_group)].then
         IN  IF rule_type = "accept" THEN Select(df, mask)
             ELSE Select(df, Not(mask))

RECURSIVE apply_complex_rules_to_file(_, _)
apply_complex_rules_to_file(df, rules) ==
    IF rules = <<>> THEN df
    ELSE apply_complex_rules_to_file(apply_rule_group(df, Head(rules)), Tail(rules))

\* the detailed_results entry of one iteration of the rule-group loop
rule_group_result_matched(df, rule_group) ==
    LET mask == build_condition_mask(df, rule_group)
        rule_type == IF rule_group[Len(rule_group)].then = "accept"
                     THEN "accept" ELSE "reject"
    IN  [rule_type |-> rule_type,
         rows_removed |-> Len(Select(df, mask)),
         rows_remaining |-> Len(apply_rule_group(df, rule_group))]

rule_group_result(df, rule_group) ==
    LET mask == build_condition_mask(df, rule_group)
        rule_type == IF rule_group[Len(rule_group)].then = "accept"
                     THEN "accept" ELSE "reject"
        rows_to_remove == IF rule_type = "accept" THEN Select(df, Not(mask))
                          ELSE Select(df, mask)
    IN  [rule_type |-> rule_type,
         rows_removed |-> Len(rows_to_remove),
         rows_remaining |-> Len(apply_rule_group(df, rule_group))]

\* all_results of the loop: empty groups are skipped
RECURSIVE all_results(_, _)
all_results(df, rules) ==
    IF rules = <<>> THEN <<>>
    ELSE IF Head(rules) = <<>> THEN all_results(df, Tail(rules))
    ELSE <<rule_group_result(df, Head(rules))>>
         \o all_results(apply_rule_group(df, Head(rules)), Tail(rules))

RECURSIVE total_rows_removed(_)
total_rows_removed(results) ==
    IF results = <<>> THEN 0
    ELSE Head(results).rows_removed + total_rows_removed(Tail(results))

\* what apply_complex_rules_to_file returns, and the file it saves
complex_rules_return(df, rules) ==
    [stats_before |-> [rows |-> Len(df)],
     stats_after |-> [rows |-> Len(apply_complex_rules_to_file(df, rules))],
     rules_results |->
         [total_rows_removed |-> total_rows_removed(all_results(df, rules)),
          rule_groups_applied |-> Len(rules),
          detailed_results |-> all_results(df, rules)],
     file |-> apply_complex_rules_to_file(df, rules)]

(***************************************************************************)
(* Row migration engine (utils/apply_rule.py): pure parts.  A partition is *)
(* a sequence of rows {rid, amount, from_tag}; amount is catalog-typed as  *)
(* a number, so load_version_data has coerced it with pd.to_numeric.  The  *)
(* rule payloads of the model use the operators "greater than" and         *)
(* "less than" only.                                                       *)
(***************************************************************************)
Row(rid, amount) == [rid |-> rid, amount |-> amount, from_tag |-> ""]

ApplyColumns == {"amount"}

Rids(rows) == {rows[i].rid : i \in 1..Len(rows)}

build_condition(df, rule) ==
    IF rule.column \notin ApplyColumns THEN AllFalse(Len(df))
    ELSE [i \in 1..Len(df) |->
            CASE rule.operator = "greater than" -> NumGt(df[i].amount, rule.value)
              [] rule.operator = "less than"    -> NumLt(df[i].amount, rule.value)
              [] OTHER                          -> FALSE]

RECURSIVE build_mask_upto(_, _, _)
build_mask_upto(df, rule_group, i) ==
    IF i = 1 THEN build_condition(df, rule_group[1])
    ELSE LET mask == build_mask_upto(df, rule_group, i - 1)
             condition == build_condition(df, rule_group[i])
             connector == rule_group[i].connector
         IN  [k \in 1..Len(df) |->
                IF connector = "THEN" THEN mask[k] /\ condition[k]
                ELSE IF connector = "OR" THEN mask[k] \/ condition[k]
                ELSE mask[k] /\ condition[k]]

build_mask(df, rule_group) ==
    IF rule_group = <<>> THEN AllFalse(Len(df))
    ELSE build_mask_upto(df, rule_group, Len(rule_group))

Stamp(rows, tag) == [i \in 1..Len(rows) |-> [rows[i] EXCEPT !.from_tag = tag]]

perform_ejection_same(source_df, untagged_df, rule_group, source_tag, rule_type) ==
    LET mask == build_mask(source_df, rule_group)
        ejected_rows == Stamp(Select(source_df, mask), source_tag)
    IN  [source |-> Select(source_df, Not(mask)),
         untagged |-> untagged_df \o ejected_rows,
         count |-> Len(ejected_rows),
         rows |-> ejected_rows]

\* returns updated_source, updated_untagged, len(ejected_rows) and the ejected
\* rows that the caller's ledgers receive
perform_ejection(source_df, untagged_df, rule_group, source_tag, rule_type) ==
    LET mask == build_mask(source_df, rule_group)
        ejected_rows ==
            Stamp(IF rule_type = "accept" THEN Select(source_df, Not(mask))
                  ELSE Select(source_df, mask), source_tag)
        updated_source ==
            IF rule_type = "accept" THEN Select(source_df, mask)
            ELSE Select(source_df, Not(mask))
    IN  [source |-> updated_source,
         untagged |-> untagged_df \o ejected_rows,
         count |-> Len(ejected_rows),
         rows |-> ejected_rows]

\* included rows keep their from_tag unless every one of them lacks it
MarkSource(rows) ==
    IF \A i \in 1..Len(rows) : rows[i].from_tag = "nan"
    THEN Stamp(rows, "untagged") ELSE rows

perform_inclusion_matching(target_df, untagged_df, rule_group, rule_type) ==
    LET mask == build_mask(untagged_df, rule_group)
        included_rows == MarkSource(Select(untagged_df, mask))
    IN  IF untagged_df = <<>> \/ included_rows = <<>>
        THEN [target |-> target_df, untagged |-> untagged_df, count |-> 0,
              rows |-> <<>>, evaluated |-> untagged_df # <<>>]
        ELSE [target |-> target_df \o included_rows,
              untagged |-> Select(untagged_df, Not(mask)),
              count |-> Len(included_rows),
              rows |-> included_rows, evaluated |-> TRUE]

perform_inclusion(target_df, untagged_df, rule_group, rule_type) ==
    LET mask == build_mask(untagged_df, rule_group)
        selected == IF rule_type = "accept" THEN Select(untagged_df, mask)
                    ELSE Select(untagged_df, Not(mask))
        updated_untagged == IF rule_type = "accept" THEN Select(untagged_df, Not(mask))
                            ELSE Select(untagged_df, mask)
        included_rows == MarkSource(selected)
    IN  IF untagged_df = <<>> \/ selected = <<>>
        THEN [target |-> target_df, untagged |-> untagged_df, count |-> 0,
              rows |-> <<>>, evaluated |-> untagged_df # <<>>]
        ELSE [target |-> target_df \o included_rows,
              untagged |-> updated_untagged,
              count |-> Len(included_rows),
              rows |-> included_rows, evaluated |-> TRUE]

(***************************************************************************)
(* Version chain manager: state of one transaction                         *)
(***************************************************************************)
VARIABLES
    versions,                        \* transaction_versions: id -> record
    files,                           \* file store: path -> dataset
    rule_application_root_versions,  \* the transaction's root-version list
    final_rbi_rules_applied,         \* TRUE iff the transaction has a final RBI version
    nextId,                          \* next fresh ObjectId
    resp,                            \* response of the last request
    prevResp                         \* response of the request before it

chainVars == <<versions, files, rule_application_root_versions,
               final_rbi_rules_applied, nextId, resp, prevResp>>

\* Evaluation of the combinators on one dataset and one rule group
VARIABLES
    m_df,      \* the dataset
    m_group,   \* the rule group
    m_done,    \* which functions have been evaluated
    m_mask,    \* result of ApplyRule.build_mask
    m_cmask,   \* result of build_condition_mask
    m_eject,   \* results of perform_ejection under accept and under reject
    m_incl     \* results of perform_inclusion under accept and under reject

maskVars == <<m_df, m_group, m_done, m_mask, m_cmask, m_eject, m_incl>>

\* One project and its apply_rules request (ApplyRule instance fields keep
\* their names)
VARIABLES
    split_with_tags,    \* the project's partitions: tag -> rows and flag
    data,               \* the request payload
    pc,                 \* index in apply_rules_steps of the next step, 0 = none
    apply_status,       \* "none", "running", "success" or "error"
    dfs,                \* self.dfs: key -> rows
    version_map,        \* keys of self.version_map
    ejection_results,   \* self.ejection_results
    inclusion_results,  \* self.inclusion_results
    ejected_rows,       \* self.ejected_rows, in insertion order
    injected_rows,      \* self.injected_rows, in insertion order
    temp_files,         \* project.temp_files with their version records
    proj_files,         \* temp and audit files of the project: path -> rows
    rows_removed_files, \* project.rows_removed_files with their versions
    rows_added_files,   \* project.rows_added_files with their versions
    project_steps,      \* project.steps_completed, temp_steps, current_step
    proj_versions,      \* version records of the temp and audit files
    runs,               \* number of apply_rules requests received
    trace               \* history: the ejections and inclusions performed

runVars == <<dfs, version_map, ejection_results, inclusion_results,
             ejected_rows, injected_rows, trace>>

storeVars == <<temp_files, proj_files, rows_removed_files, rows_added_files,
               proj_versions>>

applyVars == <<split_with_tags, data, pc, apply_status, runVars, storeVars,
               project_steps, runs>>

\* One transaction and its temporary phases (transaction_dataset/views.py)
VARIABLES
    transaction,   \* the transaction document: step files and temp pointers
    tx_versions,   \* transaction_versions of the step files: id -> record
    tx_files,      \* files of the transaction folder: path -> content
    tx_next,       \* next fresh ObjectId of that collection
    tx_resp        \* response of the last phase request

txVars == <<transaction, tx_versions, tx_files, tx_next, tx_resp>>

\* One date cell, one date literal and the evaluators' answers on them
VARIABLES
    d_cell,   \* text of the cell of a date column
    d_lit,    \* text of the literal of the condition
    d_op,     \* operator of the condition
    d_out     \* evaluator -> its answer on the cell, once evaluated

dateVars == <<d_cell, d_lit, d_op, d_out>>

\* One call of apply_complex_rules_to_file
VARIABLES
    c_df,      \* the dataset of the file
    c_rules,   \* the rule list
    c_out      \* what the call returns and the file it leaves, once evaluated

complexVars == <<c_df, c_rules, c_out>>

\* Concurrent apply_rule_to_existing_version requests on the chain store
VARIABLES
    requests   \* request -> its input, position, locals and response

raceVars == <<requests>>

vars == <<chainVars, maskVars, applyVars, txVars, dateVars, complexVars, raceVars>>

outsideChain == <<maskVars, applyVars, txVars, dateVars, complexVars, raceVars>>

outsideMask == <<chainVars, applyVars, txVars, dateVars, complexVars, raceVars>>

outsideApply == <<chainVars, maskVars, txVars, dateVars, complexVars, raceVars>>

outsideTx == <<chainVars, maskVars, applyVars, dateVars, complexVars, raceVars>>

outsideDate == <<chainVars, maskVars, applyVars, txVars, complexVars, raceVars>>

\* everything but the chain store and the requests
outsideRace == <<maskVars, applyVars, txVars, dateVars, complexVars>>

outsideComplex == <<chainVars, maskVars, applyVars, txVars, dateVars, raceVars>>

NoTransaction ==
    [column_rename_file |-> 0, changed_datatype_of_column |-> 0,
     added_new_column_final |-> 0, temp_changing_datatype_of_column |-> 0,
     temp_new_column_adding |-> 0, temp_rbi_rules_applied |-> 0,
     temp_steps |-> {}, new_added_columns_datatype |-> EmptyMap]

RaceIdle == requests = <<>>

ComplexIdle ==
    /\ c_df = <<>>
    /\ c_rules = <<>>
    /\ c_out = <<>>

DateIdle ==
    /\ d_cell = <<>>
    /\ d_lit = <<>>
    /\ d_op = ""
    /\ d_out = <<>>

TxIdle ==
    /\ transaction = NoTransaction
    /\ tx_versions = [x \in {} |-> 0]
    /\ tx_files = [x \in {} |-> 0]
    /\ tx_next = 1
    /\ tx_resp = [op |-> "none", status |-> 0]

StepsBefore ==
    [rules_applied |-> FALSE, rules_application_in_progress |-> FALSE,
     current_step |-> "add_rules"]

\* the three step updates of the apply_rules view after a successful run
StepsAfter ==
    [rules_applied |-> TRUE, rules_application_in_progress |-> TRUE,
     current_step |-> "review_rules"]

NoData == [ejection |-> <<>>, acception_rules_for_all_files |-> <<>>]

RunReset ==
    /\ dfs = EmptyMap
    /\ version_map = {}
    /\ ejection_results = <<>>
    /\ inclusion_results = <<>>
    /\ ejected_rows = <<>>
    /\ injected_rows = <<>>
    /\ trace = <<>>

ApplyIdle ==
    /\ split_with_tags = EmptyMap
    /\ data = NoData
    /\ pc = 0
    /\ apply_status = "none"
    /\ RunReset
    /\ temp_files = <<>>
    /\ proj_files = EmptyMap
    /\ rows_removed_files = <<>>
    /\ rows_added_files = <<>>
    /\ project_steps = StepsBefore
    /\ proj_versions = {}
    /\ runs = 0

MaskIdle ==
    /\ m_df = <<>>
    /\ m_group = <<>>
    /\ m_done = {}
    /\ m_mask = <<>>
    /\ m_cmask = <<>>
    /\ m_eject = <<>>
    /\ m_incl = <<>>

\* file of the final RBI version, the source of every root
SourcePath == <<"rbi_final", 0>>

SourceData == <<1, 2, 3, NaN>>

RootPath(root_number) == <<"rules_v", root_number>>

BranchPath(branch_number) == <<"rules_branch", branch_number>>

\* rule payloads of the chain requests; <<>> is the empty (rejected) payload
ChainRules ==
    { <<>>,
      << <<Cond("amount", "greater than", 2, "THEN", "reject")>> >>,
      << <<Cond("amount", "less than", 3, "OR", "absent"),
           Cond("amount", "not equal to", 3, "THEN", "accept")>> >> }

\* a response: the request (op, arg, delete_children), its HTTP status and which
\* return statement produced it
Response(op, status, error, arg, dc) ==
    [op |-> op, status |-> status, error |-> error, arg |-> arg,
     delete_children |-> dc]

NoResp == Response("none", 0, "none", NoId, FALSE)

Brief(r) == [op |-> r.op, error |-> r.error]

Children(vs, id) == {c \in DOMAIN vs : vs[c].parent_version_id = id}

\* find_one({"parent_version_id": id}): the first matching record, NoId if none
FindChild(vs, id) == IF Children(vs, id) = {} THEN NoId ELSE Min(Children(vs, id))

InRootList(id) ==
    \E i \in 1..Len(rule_application_root_versions) :
        rule_application_root_versions[i] = id

\* $pull: remove every occurrence of id
remove_rule_application_root_version(list, id) ==
    SelectSeq(list, LAMBDA x : x # id)

\* $push
add_rule_application_root_version(list, id) == Append(list, id)

VersionRecord(parent, root, level, number, path, before, after) ==
    [parent_version_id |-> parent, root_version_id |-> root,
     branch_level |-> level, branch_number |-> number, files_path |-> path,
     stats_before_rule |-> before, stats_after_rule |-> after]

ChainIdle ==
    /\ versions = EmptyMap
    /\ files = [p \in {SourcePath} |-> SourceData]
    /\ rule_application_root_versions = <<>>
    /\ final_rbi_rules_applied = TRUE
    /\ nextId = 1
    /\ resp = NoResp
    /\ prevResp = Brief(NoResp)

ChainInit ==
    /\ ChainIdle
    /\ RaceIdle
    /\ ComplexIdle
    /\ DateIdle
    /\ MaskIdle
    /\ ApplyIdle
    /\ TxIdle

Reply(r) ==
    /\ resp' = r
    /\ prevResp' = Brief(resp)

ChainUnchanged ==
    UNCHANGED <<versions, files, rule_application_root_versions,
                final_rbi_rules_applied, nextId>>

\* create_new_version_and_apply_rule storing the new id as its own parent
create_new_version_and_apply_rule_own_parent(rules) ==
    LET root_number == Len(rule_application_root_versions) + 1
        new_file_path == RootPath(root_number)
        copied == files[SourcePath]
        result == apply_complex_rules_to_file(copied, rules)
        version_id == nextId
    IN  IF rules = <<>> THEN
            /\ Reply(Response("create_root", 400, "missing_fields", NoId, FALSE))
            /\ ChainUnchanged
        ELSE IF ~final_rbi_rules_applied THEN
            /\ Reply(Response("create_root", 400, "rbi_not_finalized", NoId, FALSE))
            /\ ChainUnchanged
        ELSE IF SourcePath \notin DOMAIN files THEN
            /\ Reply(Response("create_root", 404, "file_not_found", NoId, FALSE))
            /\ ChainUnchanged
        ELSE
            /\ nextId <= MaxVersions
            /\ files' = Put(files, new_file_path, result)
            /\ versions' = Put(versions, version_id,
                               VersionRecord(version_id, version_id, 0, 0, new_file_path,
                                             Len(copied), Len(result)))
            /\ rule_application_root_versions' =
                   add_rule_application_root_version(rule_application_root_versions,
                                                     version_id)
            /\ nextId' = nextId + 1
            /\ Reply(Response("create_root", 200, "none", NoId, FALSE))
            /\ UNCHANGED final_rbi_rules_applied

\* POST /create_new_version_and_apply_rule
create_new_version_and_apply_rule(rules) ==
    LET root_number == Len(rule_application_root_versions) + 1
        new_file_path == RootPath(root_number)
        copied == files[SourcePath]
        result == apply_complex_rules_to_file(copied, rules)
        version_id == nextId
    IN  IF rules = <<>> THEN
            /\ Reply(Response("create_root", 400, "missing_fields", NoId, FALSE))
            /\ ChainUnchanged
        ELSE IF ~final_rbi_rules_applied THEN
            /\ Reply(Response("create_root", 400, "rbi_not_finalized", NoId, FALSE))
            /\ ChainUnchanged
        ELSE IF SourcePath \notin DOMAIN files THEN
            /\ Reply(Response("create_root", 404, "file_not_found", NoId, FALSE))
            /\ ChainUnchanged
        ELSE
            /\ nextId <= MaxVersions
            /\ files' = Put(files, new_file_path, result)
            /\ versions' = Put(versions, version_id,
                               VersionRecord(NoId, version_id, 0, 0, new_file_path,
                                             Len(copied), Len(result)))
            /\ rule_application_root_versions' =
                   add_rule_application_root_version(rule_application_root_versions,
                                                     version_id)
            /\ nextId' = nextId + 1
            /\ Reply(Response("create_root", 200, "none", NoId, FALSE))
            /\ UNCHANGED final_rbi_rules_applied

apply_rule_to_existing_version_nocheck(parent_version_id, rules) ==
    LET parent_version == versions[parent_version_id]
        parent_file_path == parent_version.files_path
        branch_level == parent_version.branch_level + 1
        root_version_id ==
            IF parent_version.root_version_id # NoId
            THEN parent_version.root_version_id ELSE parent_version_id
        branch_number == parent_version.branch_number + 1
        new_file_path == BranchPath(branch_number)
        copied == files[parent_file_path]
        result == apply_complex_rules_to_file(copied, rules)
        version_id == nextId
    IN  IF rules = <<>> THEN
            /\ Reply(Response("append", 400, "missing_fields", parent_version_id, FALSE))
            /\ ChainUnchanged
        ELSE IF parent_version_id \notin DOMAIN versions THEN
            /\ Reply(Response("append", 404, "not_found", parent_version_id, FALSE))
            /\ ChainUnchanged
        ELSE IF parent_file_path \notin DOMAIN files THEN
            /\ Reply(Response("append", 404, "file_not_found", parent_version_id, FALSE))
            /\ ChainUnchanged
        ELSE IF new_file_path = parent_file_path THEN
            /\ Reply(Response("append", 500, "same_file", parent_version_id, FALSE))
            /\ ChainUnchanged
        ELSE
            /\ nextId <= MaxVersions
            /\ files' = Put(files, new_file_path, result)
            /\ versions' = Put(versions, version_id,
                               VersionRecord(parent_version_id, root_version_id,
                                             branch_level, branch_number, new_file_path,
                                             Len(copied), Len(result)))
            /\ nextId' = nextId + 1
            /\ Reply(Response("append", 200, "none", parent_version_id, FALSE))
            /\ UNCHANGED <<rule_application_root_versions, final_rbi_rules_applied>>

\* POST /apply_rule_to_existing_version
apply_rule_to_existing_version(parent_version_id, rules) ==
    LET parent_version == versions[parent_version_id]
        existing_child == FindChild(versions, parent_version_id)
        parent_file_path == parent_version.files_path
        branch_level == parent_version.branch_level + 1
        root_version_id ==
            IF parent_version.root_version_id # NoId
            THEN parent_version.root_version_id ELSE parent_version_id
        branch_number == parent_version.branch_number + 1
        new_file_path == BranchPath(branch_number)
        copied == files[parent_file_path]
        result == apply_complex_rules_to_file(copied, rules)
        version_id == nextId
    IN  IF rules = <<>> THEN
            /\ Reply(Response("append", 400, "missing_fields", parent_version_id, FALSE))
            /\ ChainUnchanged
        ELSE IF parent_version_id \notin DOMAIN versions THEN
            /\ Reply(Response("append", 404, "not_found", parent_version_id, FALSE))
            /\ ChainUnchanged
        ELSE IF existing_child # NoId THEN
            /\ Reply(Response("append", 400, "child_exists", parent_version_id, FALSE))
            /\ ChainUnchanged
        ELSE IF parent_file_path \notin DOMAIN files THEN
            /\ Reply(Response("append", 404, "file_not_found", parent_version_id, FALSE))
            /\ ChainUnchanged
        ELSE IF new_file_path = parent_file_path THEN
            \* shutil.copy2 raises SameFileError, reported as 500
            /\ Reply(Response("append", 500, "same_file", parent_version_id, FALSE))
            /\ ChainUnchanged
        ELSE
            /\ nextId <= MaxVersions
            /\ files' = Put(files, new_file_path, result)
            /\ versions' = Put(versions, version_id,
                               VersionRecord(parent_version_id, root_version_id,
                                             branch_level, branch_number, new_file_path,
                                             Len(copied), Len(result)))
            /\ nextId' = nextId + 1
            /\ Reply(Response("append", 200, "none", parent_version_id, FALSE))
            /\ UNCHANGED <<rule_application_root_versions, final_rbi_rules_applied>>

\* delete_version_chain: walk child links from vid, deleting file and record;
\* returns <<versions, files>>
RECURSIVE delete_version_chain(_, _, _)
delete_version_chain(vs, fs, current_id) ==
    LET child == FindChild(vs, current_id)
        fs2 == IF current_id \in DOMAIN vs
               THEN Drop(fs, {vs[current_id].files_path}) ELSE fs
        vs2 == Drop(vs, {current_id})
    IN  IF child = NoId THEN <<vs2, fs2>>
        ELSE delete_version_chain(vs2, fs2, child)

\* DELETE /delete_rule_version
delete_rule_version(version_id) ==
    LET deleted == delete_version_chain(versions, files, version_id)
    IN  /\ rule_application_root_versions' =
               IF InRootList(version_id)
               THEN remove_rule_application_root_version(
                        rule_application_root_versions, version_id)
               ELSE rule_application_root_versions
        /\ versions' = deleted[1]
        /\ files' = deleted[2]
        /\ Reply(Response("delete_chain", 200, "none", version_id, TRUE))
        /\ UNCHANGED <<final_rbi_rules_applied, nextId>>

\* update_descendant_branch_numbers: $inc branch_number by -decrement from
\* start_id down the child links
update_descendant_branch_numbers_keep(vs, start_id, decrement) == vs

update_descendant_branch_numbers_first(vs, start_id, decrement) ==
    IF start_id \in DOMAIN vs
    THEN [vs EXCEPT ![start_id].branch_number = @ - decrement] ELSE vs

RECURSIVE update_descendant_branch_numbers(_, _, _)
update_descendant_branch_numbers(vs, start_id, decrement) ==
    LET vs2 == IF start_id \in DOMAIN vs
               THEN [vs EXCEPT ![start_id].branch_number = @ - decrement] ELSE vs
        next_child == FindChild(vs2, start_id)
    IN  IF next_child = NoId THEN vs2
        ELSE update_descendant_branch_numbers(vs2, next_child, decrement)

\* update_descendants_root: every descendant of start_id gets the new root and
\* branch_level = branch_number = its distance from start_id
update_descendants_root_none(vs, current_id, new_root_id, level) == vs

RECURSIVE update_descendants_root(_, _, _, _)
update_descendants_root(vs, current_id, new_root_id, level) ==
    LET next_child == FindChild(vs, current_id)
    IN  IF next_child = NoId THEN vs
        ELSE update_descendants_root(
                 [vs EXCEPT ![next_child].root_version_id = new_root_id,
                            ![next_child].branch_level = level + 1,
                            ![next_child].branch_number = level + 1],
                 next_child, new_root_id, level + 1)

\* reconnect_children without the promoted child's own root_version_id update
reconnect_children_keep_root(version_id) ==
    LET version == versions[version_id]
        parent_id == version.parent_version_id
        children == Children(versions, version_id)
        child == Min(children)
    IN  IF children # {} /\ parent_id # NoId THEN
            <<update_descendant_branch_numbers(
                  [versions EXCEPT ![child].parent_version_id = parent_id,
                                   ![child].branch_level = version.branch_level - 1],
                  child, 1),
              rule_application_root_versions>>
        ELSE IF children # {} /\ parent_id = NoId THEN
            <<update_descendants_root(
                  [versions EXCEPT ![child].parent_version_id = NoId,
                                   ![child].branch_level = 0,
                                   ![child].branch_number = 0],
                  child, child, 0),
              add_rule_application_root_version(rule_application_root_versions, child)>>
        ELSE <<versions, rule_application_root_versions>>

\* the delete_children = false branch: <<versions, root list>> before the
\* version's own file and record are removed
reconnect_children(version_id) ==
    LET version == versions[version_id]
        parent_id == version.parent_version_id
        children == Children(versions, version_id)
        child == Min(children)
    IN  IF children # {} /\ parent_id # NoId THEN
            <<update_descendant_branch_numbers(
                  [versions EXCEPT ![child].parent_version_id = parent_id,
                                   ![child].branch_level = version.branch_level - 1],
                  child, 1),
              rule_application_root_versions>>
        ELSE IF children # {} /\ parent_id = NoId THEN
            <<update_descendants_root(
                  [versions EXCEPT ![child].parent_version_id = NoId,
                                   ![child].root_version_id = child,
                                   ![child].branch_level = 0,
                                   ![child].branch_number = 0],
                  child, child, 0),
              add_rule_application_root_version(rule_application_root_versions, child)>>
        ELSE <<versions, rule_application_root_versions>>

\* DELETE /delete_sub_version
delete_sub_version(version_id, delete_children) ==
    IF version_id \notin DOMAIN versions THEN
        /\ Reply(Response("delete_sub", 404, "not_found", version_id, delete_children))
        /\ ChainUnchanged
    ELSE IF InRootList(version_id) THEN
        /\ Reply(Response("delete_sub", 400, "root_version", version_id, delete_children))
        /\ ChainUnchanged
    ELSE IF delete_children THEN
        LET deleted == delete_version_chain(versions, files, version_id)
        IN  /\ versions' = deleted[1]
            /\ files' = deleted[2]
            /\ Reply(Response("delete_sub", 200, "none", version_id, delete_children))
            /\ UNCHANGED <<rule_application_root_versions,
                           final_rbi_rules_applied, nextId>>
    ELSE IF Cardinality(Children(versions, version_id)) > 1 THEN
        /\ Reply(Response("delete_sub", 400, "multiple_children", version_id, delete_children))
        /\ ChainUnchanged
    ELSE
        LET reconnected == reconnect_children(version_id)
        IN  /\ versions' = Drop(reconnected[1], {version_id})
            /\ rule_application_root_versions' = reconnected[2]
            /\ files' = Drop(files, {versions[version_id].files_path})
            /\ Reply(Response("delete_sub", 200, "none", version_id, delete_children))
            /\ UNCHANGED <<final_rbi_rules_applied, nextId>>

\* version ids a request may name: every id handed out so far, live or deleted
RequestIds == 1..(nextId - 1)

CreateRoot ==
    /\ \E rules \in ChainRules : create_new_version_and_apply_rule(rules)
    /\ UNCHANGED outsideChain

AppendChild ==
    /\ \E p \in RequestIds, rules \in ChainRules :
          apply_rule_to_existing_version(p, rules)
    /\ UNCHANGED outsideChain

DeleteChain ==
    /\ \E v \in RequestIds : delete_rule_version(v)
    /\ UNCHANGED outsideChain

DeleteSubVersion ==
    /\ \E v \in RequestIds, dc \in BOOLEAN : delete_sub_version(v, dc)
    /\ UNCHANGED outsideChain

ChainNext == CreateRoot \/ AppendChild \/ DeleteChain \/ DeleteSubVersion

SpecChain == ChainInit /\ [][ChainNext]_vars

\* The chain requests with rule lists that remove different rows, so that the
\* row counts differ from one level of a chain to the next; at most
\* MaxStatsVersions versions are ever created.
MaxStatsVersions == 3

StatsRules ==
    { << <<Cond("amount", "less than", 2, "THEN", "reject")>> >>,
      << <<Cond("amount", "greater than", 2, "THEN", "reject")>> >> }

StatsCreateRoot ==
    /\ nextId <= MaxStatsVersions
    /\ \E rules \in StatsRules : create_new_version_and_apply_rule(rules)
    /\ UNCHANGED outsideChain

StatsAppendChild ==
    /\ nextId <= MaxStatsVersions
    /\ \E p \in RequestIds, rules \in StatsRules :
          apply_rule_to_existing_version(p, rules)
    /\ UNCHANGED outsideChain

StatsNext ==
    \/ StatsCreateRoot
    \/ StatsAppendChild
    \/ DeleteChain
    \/ DeleteSubVersion

SpecStats == ChainInit /\ [][StatsNext]_vars

(***************************************************************************)
(* Two apply_rule_to_existing_version requests served at the same time.    *)
(* A request goes through the handler in three steps: the reads up to the  *)
(* child-exists check, the file copy with the rules applied, the insert.   *)
(***************************************************************************)
Requests == {1, 2}

\* the store the requests meet: root 1 with child 2, which has no child
RaceVersions ==
    Put(Put(EmptyMap, 1, VersionRecord(NoId, 1, 0, 0, RootPath(1), 4, 3)),
        2, VersionRecord(1, 1, 1, 1, BranchPath(1), 3, 3))

RaceFiles ==
    Put(Put([p \in {SourcePath} |-> SourceData], RootPath(1), <<1, 2, NaN>>),
        BranchPath(1), <<1, 2, NaN>>)

Request(parent_version_id, rules) ==
    [parent_version_id |-> parent_version_id, rules |-> rules, pc |-> "check",
     parent_version |-> <<>>, new_file_path |-> <<>>, stats |-> <<>>,
     status |-> 0]

RaceInit ==
    /\ versions = RaceVersions
    /\ files = RaceFiles
    /\ rule_application_root_versions = <<1>>
    /\ final_rbi_rules_applied = TRUE
    /\ nextId = 3
    /\ resp = NoResp
    /\ prevResp = Brief(NoResp)
    /\ requests \in [Requests -> {Request(p, rules) : p \in {1, 2, 3},
                                                     rules \in StatsRules}]
    /\ ComplexIdle
    /\ DateIdle
    /\ MaskIdle
    /\ ApplyIdle
    /\ TxIdle

RaceFrame == UNCHANGED <<rule_application_root_versions, final_rbi_rules_applied, resp, prevResp, outsideRace>>

\* get_version(parent_version_id), the child-exists check and the parent
\* file check
CheckExistingChild(r) ==
    /\ requests[r].pc = "check"
    /\ LET parent_version_id == requests[r].parent_version_id
           answer(status) == [requests EXCEPT ![r].pc = "done", ![r].status = status]
       IN  requests' =
               IF parent_version_id \notin DOMAIN versions THEN answer(404)
               ELSE IF FindChild(versions, parent_version_id) # NoId THEN answer(400)
               ELSE IF versions[parent_version_id].files_path \notin DOMAIN files
                    THEN answer(404)
               ELSE [requests EXCEPT ![r].pc = "copy",
                                     ![r].parent_version = versions[parent_version_id]]
    /\ UNCHANGED <<versions, files, nextId>>
    /\ RaceFrame

\* shutil.copy2 and apply_complex_rules_to_file on the copy
CopyAndApplyRules(r) ==
    /\ requests[r].pc = "copy"
    /\ LET parent_file_path == requests[r].parent_version.files_path
           new_file_path == BranchPath(requests[r].parent_version.branch_number + 1)
       IN  IF parent_file_path \notin DOMAIN files
           THEN /\ requests' = [requests EXCEPT ![r].pc = "done", ![r].status = 500]
                /\ UNCHANGED files
           ELSE /\ files' = Put(files, new_file_path,
                                apply_complex_rules_to_file(files[parent_file_path],
                                                            requests[r].rules))
                /\ requests' =
                       [requests EXCEPT
                           ![r].pc = "insert",
                           ![r].new_file_path = new_file_path,
                           ![r].stats =
                               <<Len(files[parent_file_path]),
                                 Len(apply_complex_rules_to_file(
                                         files[parent_file_path], requests[r].rules))>>]
    /\ UNCHANGED <<versions, nextId>>
    /\ RaceFrame

\* TransactionVersionModel.create_version: insert_one
InsertVersion(r) ==
    /\ requests[r].pc = "insert"
    /\ LET parent_version == requests[r].parent_version
       IN  versions' =
               Put(versions, nextId,
                   VersionRecord(requests[r].parent_version_id,
                                 IF parent_version.root_version_id # NoId
                                 THEN parent_version.root_version_id
                                 ELSE requests[r].parent_version_id,
                                 parent_version.branch_level + 1,
                                 parent_version.branch_number + 1,
                                 requests[r].new_file_path,
                                 requests[r].stats[1], requests[r].stats[2]))
    /\ nextId' = nextId + 1
    /\ requests' = [requests EXCEPT ![r].pc = "done", ![r].status = 200]
    /\ UNCHANGED files
    /\ RaceFrame

RaceCheck == \E r \in Requests : CheckExistingChild(r)

RaceCopy == \E r \in Requests : CopyAndApplyRules(r)

RaceInsert == \E r \in Requests : InsertVersion(r)

RaceNext == RaceCheck \/ RaceCopy \/ RaceInsert

SpecRace == RaceInit /\ [][RaceNext]_vars

\* TransactionModel.reset_steps_from: the steps after from_step are reset
step_order ==
    <<"dataset_uploaded", "column_mapping_done", "datatype_conversion_done",
      "new_fields_added", "rbi_rules_applied", "rule_versions_created">>

StepIndex(step) == CHOOSE i \in 1..Len(step_order) : step_order[i] = step

reset_steps_from(from_step) ==
    IF \A i \in 1..Len(step_order) : step_order[i] # from_step THEN
        /\ Reply(Response("reset", 400, "unknown_step", NoId, FALSE))
        /\ ChainUnchanged
    ELSE
        /\ final_rbi_rules_applied' =
               IF StepIndex(from_step) < StepIndex("rbi_rules_applied")
               THEN FALSE ELSE final_rbi_rules_applied
        /\ rule_application_root_versions' =
               IF StepIndex(from_step) < StepIndex("rule_versions_created")
               THEN <<>> ELSE rule_application_root_versions
        /\ Reply(Response("reset", 200, "none", NoId, FALSE))
        /\ UNCHANGED <<versions, files, nextId>>

ResetStepsFrom ==
    /\ \E from_step \in {"new_fields_added", "rbi_rules_applied",
                          "rule_versions_created", "no_such_step"} :
          reset_steps_from(from_step)
    /\ UNCHANGED outsideChain

\* the chain requests next to resets: at most MaxResetVersions versions
\* are ever created
MaxResetVersions == 3

ResetCreateRoot ==
    /\ nextId <= MaxResetVersions
    /\ CreateRoot

ResetAppendChild ==
    /\ nextId <= MaxResetVersions
    /\ AppendChild

ResetNext ==
    \/ ResetCreateRoot
    \/ ResetAppendChild
    \/ DeleteChain
    \/ DeleteSubVersion
    \/ ResetStepsFrom

SpecReset == ChainInit /\ [][ResetNext]_vars

(***************************************************************************)
(* Row migration engine: one apply_rules request, step by step             *)
(* (dataset/views.py apply_rules, utils/apply_rule.py ApplyRule)           *)
(***************************************************************************)
UntaggedKey == "untagged"

\* str.strip on the tag names that occur: surrounding blanks go
strip(s) == IF s = "b " THEN "b" ELSE s

\* str.lower on the tag names that occur
lower(s) == IF s = "B" THEN "b" ELSE s

\* tag_name.strip().lower(), the tag part of a key of self.dfs
TagKey(tag_name) == lower(strip(tag_name))

\* iteration order of split_with_tags
TagOrder == <<"a", "b", "untagged">>

apply_rules_steps_inclusion_first ==
    <<"load_versions", "apply_inclusion_rules", "apply_ejection_rules",
      "save_new_versions", "save_rows_tracking_files">>

\* the calls of ApplyRule.apply_rules, in order
apply_rules_steps ==
    <<"load_versions", "apply_ejection_rules", "apply_inclusion_rules",
      "save_new_versions", "save_rows_tracking_files">>

AtStep(name) == pc \in 1..Len(apply_rules_steps) /\ apply_rules_steps[pc] = name

\* the step returns: the next one starts, or the request replies success
StepDone ==
    IF pc = Len(apply_rules_steps)
    THEN pc' = 0 /\ apply_status' = "success" /\ project_steps' = StepsAfter
    ELSE pc' = pc + 1 /\ UNCHANGED <<apply_status, project_steps>>

\* last rule's then, lower-cased; default when the group is empty or has none
RuleType(rule_group, default) ==
    IF rule_group = <<>> THEN default
    ELSE IF rule_group[Len(rule_group)].then = "absent" THEN default
    ELSE rule_group[Len(rule_group)].then

RECURSIVE SumOf(_, _)
SumOf(results, tag) ==
    IF results = <<>> THEN 0
    ELSE (IF tag = "*" \/ Head(results).tag_name = tag THEN Head(results).count ELSE 0)
         + SumOf(Tail(results), tag)

\* result["tag_name"].lower() == tag_name.lower()
get_rows_added_count(tag_name) == SumOf(inclusion_results, lower(tag_name))

get_rows_removed_count(tag_name) == SumOf(ejection_results, lower(tag_name))

\* ledger[key] = concat(ledger[key], rows), a new key going last
LedgerAdd(ledger, key, rows) ==
    IF \E i \in 1..Len(ledger) : ledger[i].key = key
    THEN [i \in 1..Len(ledger) |->
            IF ledger[i].key = key
            THEN [key |-> key, rows |-> ledger[i].rows \o rows] ELSE ledger[i]]
    ELSE Append(ledger, [key |-> key, rows |-> rows])

\* self.dfs[key], self.dfs[untagged_key], count = ... assigns left to right
AssignBoth(d, key, df, untagged_df) == Put(Put(d, key, df), UntaggedKey, untagged_df)

MaxRuns == 2

\* the ObjectId of a version record: the request that created it and the
\* file it was created for (a request creates one record per file)
VersionId(files_path) == [run |-> runs, files_path |-> files_path]

\* the version ids a list of the project document refers to
VersionIds(entries) == {entries[i].version_id : i \in 1..Len(entries)}

\* POST /apply_rules up to the construction of ApplyRule:
\* clear_existing_temp_files, then ApplyRule(project, data)
ApplyRulesRequest ==
    /\ pc = 0
    /\ runs < MaxRuns
    /\ runs' = runs + 1
    /\ temp_files' = <<>>
    /\ proj_files' = Drop(proj_files, {temp_files[i].files_path : i \in 1..Len(temp_files)})
    /\ proj_versions' = proj_versions \ VersionIds(temp_files)
    /\ dfs' = EmptyMap
    /\ version_map' = {}
    /\ ejection_results' = <<>>
    /\ inclusion_results' = <<>>
    /\ ejected_rows' = <<>>
    /\ injected_rows' = <<>>
    /\ trace' = <<>>
    /\ pc' = 1
    /\ apply_status' = "running"
    /\ UNCHANGED <<split_with_tags, data, rows_removed_files, rows_added_files,
                   project_steps, outsideApply>>

VersionIdsInRules ==
    {data.ejection[i].version_id : i \in 1..Len(data.ejection)}
    \cup {data.acception_rules_for_all_files[i].version_id :
            i \in 1..Len(data.acception_rules_for_all_files)}

\* the partitions load_versions puts into self.dfs besides untagged
LoadedTags ==
    {t \in DOMAIN split_with_tags :
        /\ t # UntaggedKey
        /\ t \in VersionIdsInRules
        /\ split_with_tags[t].sent_for_rule_addition}

LoadedUntagged ==
    IF UntaggedKey \in DOMAIN split_with_tags
    THEN split_with_tags[UntaggedKey].rows ELSE <<>>

\* ApplyRule.load_versions; with an empty untagged frame the expression
\* any(self.dfs.values()) takes the truth value of a DataFrame and raises,
\* which apply_rules re-raises and the view reports as a 500
load_versions ==
    /\ AtStep("load_versions")
    /\ IF LoadedUntagged = <<>>
       THEN /\ pc' = 0
            /\ apply_status' = "error"
            /\ UNCHANGED project_steps
            /\ dfs' = [k \in {UntaggedKey} \cup LoadedTags |->
                         IF k = UntaggedKey THEN <<>> ELSE split_with_tags[k].rows]
            /\ version_map' = LoadedTags
       ELSE /\ StepDone
            /\ dfs' = [k \in {UntaggedKey} \cup LoadedTags |->
                         IF k = UntaggedKey THEN LoadedUntagged
                         ELSE split_with_tags[k].rows]
            /\ version_map' = LoadedTags
    /\ UNCHANGED <<split_with_tags, data, runs, ejection_results, inclusion_results,
                   ejected_rows, injected_rows, trace, storeVars,
                   outsideApply>>

RunState(d, er, ir, res, tr) ==
    [dfs |-> d, ejected_rows |-> er, injected_rows |-> ir, results |-> res,
     trace |-> tr]

\* the rule groups of one ejection rule, in order
RECURSIVE EjectGroups(_, _, _)
EjectGroups(st, tag_name, groups) ==
    IF groups = <<>> THEN st
    ELSE LET rule_group == Head(groups)
             rule_type == RuleType(rule_group, "reject")
             r == perform_ejection(st.dfs[tag_name], st.dfs[UntaggedKey],
                                   rule_group, tag_name, rule_type)
         IN  EjectGroups(
                 RunState(AssignBoth(st.dfs, tag_name, r.source, r.untagged),
                          LedgerAdd(st.ejected_rows, tag_name, r.rows),
                          LedgerAdd(st.injected_rows, UntaggedKey, r.rows),
                          Append(st.results, [tag_name |-> tag_name,
                                              rule_type |-> rule_type,
                                              rule_group |-> rule_group,
                                              count |-> r.count]),
                          Append(st.trace, [kind |-> "eject", tag_name |-> tag_name,
                                            seen |-> Rids(st.dfs[tag_name]),
                                            moved |-> Rids(r.rows),
                                            evaluated |-> TRUE])),
                 tag_name, Tail(groups))

RECURSIVE EjectEntries(_, _)
EjectEntries(st, entries) ==
    IF entries = <<>> THEN st
    ELSE LET key == TagKey(Head(entries).tag_name)
         IN  IF key \notin DOMAIN st.dfs
             THEN EjectEntries(st, Tail(entries))
             ELSE EjectEntries(EjectGroups(st, key, Head(entries).rules),
                               Tail(entries))

\* ApplyRule.apply_ejection_rules
apply_ejection_rules ==
    /\ AtStep("apply_ejection_rules")
    /\ LET st == EjectEntries(RunState(dfs, ejected_rows, injected_rows,
                                       ejection_results, trace), data.ejection)
       IN  /\ dfs' = st.dfs
           /\ ejected_rows' = st.ejected_rows
           /\ injected_rows' = st.injected_rows
           /\ ejection_results' = st.results
           /\ trace' = st.trace
    /\ StepDone
    /\ UNCHANGED <<split_with_tags, data, runs, version_map, inclusion_results,
                   storeVars, outsideApply>>

RECURSIVE IncludeGroups(_, _, _)
IncludeGroups(st, tag_name, groups) ==
    IF groups = <<>> THEN st
    ELSE LET rule_group == Head(groups)
             rule_type == RuleType(rule_group, "accept")
             r == perform_inclusion(st.dfs[tag_name], st.dfs[UntaggedKey],
                                    rule_group, rule_type)
         IN  IncludeGroups(
                 RunState(AssignBoth(st.dfs, tag_name, r.target, r.untagged),
                          IF r.count > 0
                          THEN LedgerAdd(st.ejected_rows, UntaggedKey, r.rows)
                          ELSE st.ejected_rows,
                          IF r.count > 0
                          THEN LedgerAdd(st.injected_rows, tag_name, r.rows)
                          ELSE st.injected_rows,
                          Append(st.results, [tag_name |-> tag_name,
                                              rule_type |-> rule_type,
                                              rule_group |-> rule_group,
                                              count |-> r.count]),
                          Append(st.trace, [kind |-> "include", tag_name |-> tag_name,
                                            seen |-> Rids(st.dfs[UntaggedKey]),
                                            moved |-> Rids(r.rows),
                                            evaluated |-> r.evaluated])),
                 tag_name, Tail(groups))

RECURSIVE IncludeEntries(_, _)
IncludeEntries(st, entries) ==
    IF entries = <<>> THEN st
    ELSE LET key == TagKey(Head(entries).tag_name)
             created == IF key \in DOMAIN st.dfs THEN st.dfs ELSE Put(st.dfs, key, <<>>)
         IN  IncludeEntries(
                 IncludeGroups(RunState(created, st.ejected_rows, st.injected_rows,
                                        st.results, st.trace),
                               key, Head(entries).rules),
                 Tail(entries))

\* ApplyRule.apply_inclusion_rules
apply_inclusion_rules ==
    /\ AtStep("apply_inclusion_rules")
    /\ LET st == IncludeEntries(RunState(dfs, ejected_rows, injected_rows,
                                         inclusion_results, trace),
                                data.acception_rules_for_all_files)
       IN  /\ dfs' = st.dfs
           /\ ejected_rows' = st.ejected_rows
           /\ injected_rows' = st.injected_rows
           /\ inclusion_results' = st.results
           /\ trace' = st.trace
    /\ StepDone
    /\ UNCHANGED <<split_with_tags, data, runs, version_map, ejection_results,
                   storeVars, outsideApply>>

TempVersion(tag_name, df, rows_added, rows_removed, modified, files_path) ==
    [tag_name |-> tag_name, rows_count |-> Len(df), rows_added |-> rows_added,
     rows_removed |-> rows_removed, modified |-> modified,
     files_path |-> files_path, version_id |-> VersionId(files_path)]

\* ..._datatype_converted_tags_{Tag}_temp
ConvertedTempPath(tag_name) == <<"datatype_converted_tags_temp", tag_name>>

\* ..._updated_column_names_tags_{Tag}_temp
TagsTempPath(tag_name) == <<"tags_temp", tag_name>>

\* first loop of save_new_versions: the loaded tagged partitions
RECURSIVE SaveProcessed(_)
SaveProcessed(tags) ==
    IF tags = <<>> THEN <<>>
    ELSE LET key == Head(tags)
         IN  IF key = UntaggedKey \/ key \notin version_map \/ key \notin DOMAIN dfs
             THEN SaveProcessed(Tail(tags))
             ELSE LET tag_name == split_with_tags[key].tag_name
                  IN  <<TempVersion(tag_name, dfs[key],
                                    get_rows_added_count(tag_name),
                                    get_rows_removed_count(tag_name), TRUE,
                                    ConvertedTempPath(tag_name))>>
                      \o SaveProcessed(Tail(tags))

\* the untagged version: added = rows ejected to it, removed = rows included
SaveUntagged ==
    LET net_added == SumOf(ejection_results, "*")
        net_removed == SumOf(inclusion_results, "*")
    IN  IF UntaggedKey \in DOMAIN dfs
        THEN <<TempVersion(UntaggedKey, dfs[UntaggedKey], net_added, net_removed,
                           net_added > 0 \/ net_removed > 0,
                           TagsTempPath(UntaggedKey))>>
        ELSE <<>>

\* frame the third loop saves for a flagged partition the first loop skipped
RemainingFrame(key) ==
    IF key \in DOMAIN dfs THEN dfs[key] ELSE split_with_tags[key].rows

\* third loop: flagged partitions of split_with_tags not processed above
RECURSIVE SaveRemaining(_)
SaveRemaining(tags) ==
    IF tags = <<>> THEN <<>>
    ELSE LET key == Head(tags)
         IN  IF \/ key \notin DOMAIN split_with_tags
                \/ ~split_with_tags[key].sent_for_rule_addition
                \/ key \in version_map
                \/ key = UntaggedKey
             THEN SaveRemaining(Tail(tags))
             ELSE <<TempVersion(key, RemainingFrame(key), 0, 0, FALSE,
                                TagsTempPath(key))>>
                  \o SaveRemaining(Tail(tags))

\* write every saved frame to its path, later writes replacing earlier ones
RECURSIVE WriteAll(_, _, _)
WriteAll(fs, entries, frame) ==
    IF entries = <<>> THEN fs
    ELSE WriteAll(Put(fs, Head(entries).files_path,
                      frame[TagKey(Head(entries).tag_name)]),
                  Tail(entries), frame)

\* the versions save_new_versions creates, in the order of its three loops
NewTempVersions == SaveProcessed(TagOrder) \o SaveUntagged \o SaveRemaining(TagOrder)

\* self.dfs once the third loop has loaded the partitions it saves
SavedFrames ==
    LET remaining == SaveRemaining(TagOrder)
    IN  [k \in DOMAIN dfs \cup {remaining[i].tag_name : i \in 1..Len(remaining)}
            |-> RemainingFrame(k)]

\* save_new_versions when save_dataframe raises on the k-th file: the files
\* and version records before it exist, append_temp_file is never reached,
\* apply_rules re-raises and the view answers 500
save_new_versions_io_error ==
    /\ AtStep("save_new_versions")
    /\ \E k \in 1..Len(NewTempVersions) :
          LET written == SubSeq(NewTempVersions, 1, k - 1)
          IN  /\ proj_files' = WriteAll(proj_files, written, SavedFrames)
              /\ proj_versions' = proj_versions \cup VersionIds(written)
    /\ pc' = 0
    /\ apply_status' = "error"
    /\ UNCHANGED <<split_with_tags, data, runs, runVars, temp_files,
                   rows_removed_files, rows_added_files, project_steps,
                   outsideApply>>

\* ApplyRule.save_new_versions
save_new_versions ==
    /\ AtStep("save_new_versions")
    /\ LET new_temp_versions == NewTempVersions
           loaded == SavedFrames
       IN  /\ temp_files' = temp_files \o new_temp_versions
           /\ proj_files' = WriteAll(proj_files, new_temp_versions, loaded)
           /\ proj_versions' = proj_versions \cup VersionIds(new_temp_versions)
           /\ dfs' = loaded
    /\ StepDone
    /\ UNCHANGED <<split_with_tags, data, runs, version_map, ejection_results,
                   inclusion_results, ejected_rows, injected_rows, trace,
                   rows_removed_files, rows_added_files, outsideApply>>

\* {project}_rows_removed_{tag} and {project}_rows_added_{tag}
TrackingPath(kind, tag_name) == <<kind, tag_name>>

\* one tracking version per non-empty ledger entry
RECURSIVE TrackingVersions(_, _)
TrackingVersions(ledger, kind) ==
    IF ledger = <<>> THEN <<>>
    ELSE IF Head(ledger).rows = <<>> THEN TrackingVersions(Tail(ledger), kind)
    ELSE <<[tag_name |-> Head(ledger).key, rows_count |-> Len(Head(ledger).rows),
            files_path |-> TrackingPath(kind, Head(ledger).key),
            version_id |-> VersionId(TrackingPath(kind, Head(ledger).key))]>>
         \o TrackingVersions(Tail(ledger), kind)

LedgerFrames(ledger) ==
    [k \in {ledger[i].key : i \in 1..Len(ledger)} |->
        ledger[CHOOSE i \in 1..Len(ledger) : ledger[i].key = k].rows]

\* ProjectModel.clear_rows_tracking_files: the files that remain
clear_rows_tracking_files(fs) ==
    Drop(fs, {rows_removed_files[i].files_path : i \in 1..Len(rows_removed_files)}
             \cup {rows_added_files[i].files_path : i \in 1..Len(rows_added_files)})

save_rows_tracking_files_keep ==
    /\ AtStep("save_rows_tracking_files")
    /\ LET removed == TrackingVersions(ejected_rows, "rows_removed")
           added == TrackingVersions(injected_rows, "rows_added")
       IN  /\ rows_removed_files' = rows_removed_files \o removed
           /\ rows_added_files' = rows_added_files \o added
           /\ proj_versions' =
                 proj_versions \cup VersionIds(removed) \cup VersionIds(added)
           /\ proj_files' = WriteAll(WriteAll(proj_files,
                                              removed, LedgerFrames(ejected_rows)),
                                     added, LedgerFrames(injected_rows))
    /\ StepDone
    /\ UNCHANGED <<split_with_tags, data, runs, runVars, temp_files, outsideApply>>

\* ApplyRule.save_rows_tracking_files
save_rows_tracking_files ==
    /\ AtStep("save_rows_tracking_files")
    /\ LET removed == TrackingVersions(ejected_rows, "rows_removed")
           added == TrackingVersions(injected_rows, "rows_added")
       IN  /\ rows_removed_files' = removed
           /\ rows_added_files' = added
           /\ proj_versions' =
                 ((proj_versions \ VersionIds(rows_added_files))
                    \ VersionIds(rows_removed_files))
                 \cup VersionIds(removed) \cup VersionIds(added)
           /\ proj_files' = WriteAll(WriteAll(clear_rows_tracking_files(proj_files),
                                              removed, LedgerFrames(ejected_rows)),
                                     added, LedgerFrames(injected_rows))
    /\ StepDone
    /\ UNCHANGED <<split_with_tags, data, runs, runVars, temp_files, outsideApply>>

ApplyNext ==
    \/ ApplyRulesRequest
    \/ load_versions
    \/ apply_ejection_rules
    \/ apply_inclusion_rules
    \/ save_new_versions
    \/ save_rows_tracking_files

(***************************************************************************)
(* Projects and payloads of the row migration engine                       *)
(***************************************************************************)
Partition(tag_name, rows, sent_for_rule_addition) ==
    [tag_name |-> tag_name, rows |-> rows,
     sent_for_rule_addition |-> sent_for_rule_addition]

RowsA == <<Row(1, 1), Row(2, 3)>>

RowsB == <<Row(3, 2)>>

RowsUntagged == <<Row(4, 1), Row(5, 3)>>

\* the projects: a is always split out, b may be absent, untagged may be
\* absent, empty or filled
Projects ==
    {[t \in ({"a"} \cup bs \cup us) |->
        CASE t = "a" -> Partition(t, RowsA, fa)
          [] t = "b" -> Partition(t, RowsB, fb)
          [] OTHER   -> Partition(t, ru, FALSE)] :
     fa \in BOOLEAN, fb \in BOOLEAN, bs \in {{}, {"b"}},
     us \in {{}, {UntaggedKey}}, ru \in {<<>>, RowsUntagged}}

ApplyGroups ==
    { <<Cond("amount", "greater than", 2, "THEN", "reject")>>,
      <<Cond("amount", "greater than", 2, "THEN", "accept")>>,
      <<Cond("amount", "less than", 2, "THEN", "absent")>>,
      <<Cond("amount", "greater than", 1, "AND", "absent"),
        Cond("amount", "less than", 3, "THEN", "accept")>>,
      <<Cond("branch", "greater than", 0, "THEN", "reject")>>,
      <<Cond("branch", "greater than", 0, "THEN", "accept")>> }

Entry(tag_name, rules) == [version_id |-> tag_name, tag_name |-> tag_name, rules |-> rules]

RuleLists ==
    {<<g>> : g \in ApplyGroups}
    \cup {<<<<Cond("amount", "greater than", 2, "THEN", "reject")>>,
            <<Cond("amount", "less than", 2, "THEN", "accept")>>>>}

EjectionLists ==
    {<<>>}
    \cup {<<Entry(t, r)>> : t \in {"a", "b"}, r \in RuleLists}
    \cup {<<Entry("a", <<g>>), Entry("b", <<g>>)>> : g \in ApplyGroups}

InclusionLists ==
    {<<>>}
    \cup {<<Entry(t, r)>> : t \in {"a", "b", "zz"}, r \in RuleLists}
    \cup {<<Entry("a", <<g>>), Entry("b", <<h>>)>> : g, h \in ApplyGroups}

Payloads ==
    {[ejection |-> e, acception_rules_for_all_files |-> i] :
        e \in EjectionLists, i \in InclusionLists}

ApplyInit ==
    /\ split_with_tags \in Projects
    /\ data \in Payloads
    /\ pc = 0
    /\ apply_status = "none"
    /\ RunReset
    /\ temp_files = <<>>
    /\ proj_files = EmptyMap
    /\ rows_removed_files = <<>>
    /\ rows_added_files = <<>>
    /\ project_steps = StepsBefore
    /\ proj_versions = {}
    /\ runs = 0
    /\ ChainIdle
    /\ RaceIdle
    /\ ComplexIdle
    /\ DateIdle
    /\ MaskIdle
    /\ TxIdle

SpecApply == ApplyInit /\ [][ApplyNext]_vars

\* the scenario project: a holds ten rows, three of them above 100; b and
\* untagged hold rows not above 100, untagged possibly none
ScenarioA(S) == [i \in 1..10 |-> Row(i, IF i \in S THEN 150 ELSE 100)]

ScenarioData ==
    [ejection |->
        <<Entry("a", <<<<Cond("amount", "greater than", 100, "THEN", "reject")>>>>)>>,
     acception_rules_for_all_files |->
        <<Entry("b", <<<<Cond("amount", "greater than", 100, "THEN", "accept")>>>>)>>]

ScenarioInit ==
    /\ \E S \in SUBSET (1..10) :
         /\ Cardinality(S) = 3
         /\ \E ru \in {<<>>, <<Row(11, 50)>>, <<Row(11, 100), Row(12, 50)>>},
               rb \in {<<>>, <<Row(13, 100)>>} :
              split_with_tags =
                 [t \in {"a", "b", UntaggedKey} |->
                    CASE t = "a" -> Partition(t, ScenarioA(S), TRUE)
                      [] t = "b" -> Partition(t, rb, TRUE)
                      [] OTHER   -> Partition(t, ru, FALSE)]
    /\ data = ScenarioData
    /\ pc = 0
    /\ apply_status = "none"
    /\ RunReset
    /\ temp_files = <<>>
    /\ proj_files = EmptyMap
    /\ rows_removed_files = <<>>
    /\ rows_added_files = <<>>
    /\ project_steps = StepsBefore
    /\ proj_versions = {}
    /\ runs = 0
    /\ ChainIdle
    /\ RaceIdle
    /\ ComplexIdle
    /\ DateIdle
    /\ MaskIdle
    /\ TxIdle

SpecScenario == ScenarioInit /\ [][ApplyNext]_vars

\* runs on a file system whose writes can fail
RetryPayloads ==
    {[ejection |-> e, acception_rules_for_all_files |-> i] :
        e \in {<<>>,
               <<Entry("a", <<<<Cond("amount", "greater than", 2, "THEN", "reject")>>>>)>>,
               <<Entry("a", <<<<Cond("branch", "greater than", 0, "THEN", "reject")>>>>)>>,
               <<Entry("b", <<<<Cond("amount", "less than", 3, "THEN", "reject")>>>>)>>},
        i \in {<<>>,
               <<Entry("b", <<<<Cond("amount", "greater than", 2, "THEN", "accept")>>>>)>>,
               <<Entry("zz", <<<<Cond("amount", "less than", 2, "THEN", "accept")>>>>)>>}}

RetryInit ==
    /\ split_with_tags \in Projects
    /\ data \in RetryPayloads
    /\ pc = 0
    /\ apply_status = "none"
    /\ RunReset
    /\ temp_files = <<>>
    /\ proj_files = EmptyMap
    /\ rows_removed_files = <<>>
    /\ rows_added_files = <<>>
    /\ project_steps = StepsBefore
    /\ proj_versions = {}
    /\ runs = 0
    /\ ChainIdle
    /\ RaceIdle
    /\ ComplexIdle
    /\ DateIdle
    /\ MaskIdle
    /\ TxIdle

\* projects whose partition b stores the lender name as the file has it:
\* plain, capitalised, or followed by a blank
TagNameProjects ==
    {[t \in {"a", "b", UntaggedKey} |->
        CASE t = "a" -> Partition(t, RowsA, fa)
          [] t = "b" -> Partition(stored, RowsB \o <<Row(6, 3)>>, TRUE)
          [] OTHER   -> Partition(t, RowsUntagged, FALSE)] :
     fa \in BOOLEAN, stored \in {"b", "B", "b "}}

TagNamePayloads ==
    {[ejection |-> e, acception_rules_for_all_files |-> i] :
        e \in {<<>>} \cup
              {<<[version_id |-> "b", tag_name |-> sent, rules |-> <<g>>]>> :
                  sent \in {"b", "B", "b "},
                  g \in {<<Cond("amount", "greater than", 2, "THEN", "reject")>>,
                         <<Cond("amount", "less than", 3, "THEN", "reject")>>}},
        i \in {<<>>,
               <<Entry("b", <<<<Cond("amount", "greater than", 2, "THEN", "accept")>>>>)>>,
               <<Entry("a", <<<<Cond("amount", "less than", 2, "THEN", "accept")>>>>)>>}}

TagNameInit ==
    /\ split_with_tags \in TagNameProjects
    /\ data \in TagNamePayloads
    /\ pc = 0
    /\ apply_status = "none"
    /\ RunReset
    /\ temp_files = <<>>
    /\ proj_files = EmptyMap
    /\ rows_removed_files = <<>>
    /\ rows_added_files = <<>>
    /\ project_steps = StepsBefore
    /\ proj_versions = {}
    /\ runs = 0
    /\ ChainIdle
    /\ RaceIdle
    /\ ComplexIdle
    /\ DateIdle
    /\ MaskIdle
    /\ TxIdle

SpecTagNames == TagNameInit /\ [][ApplyNext]_vars

RetryNext == ApplyNext \/ save_new_versions_io_error

SpecRetry == RetryInit /\ [][RetryNext]_vars

(***************************************************************************)
(* The combinators as pure functions: SpecMask draws a dataset and a rule  *)
(* group and evaluates build_mask, build_condition_mask and                *)
(* perform_ejection on them.                                               *)
(***************************************************************************)
Connectors == {"AND", "OR", "THEN"}

MaskConds ==
    { Cond(c[1], c[2], c[3], conn, "absent") :
        c \in { <<"amount", "greater than", 1>>,
                <<"amount", "less than", 3>>,
                <<"no_such_column", "greater than", 1>> },
        conn \in Connectors }

SeqsUpTo(S, n) == UNION { [1..k -> S] : k \in 0..n }

MaskGroups == SeqsUpTo(MaskConds, MaxConds)

MaskDatasets ==
    { <<Row(1, 1), Row(2, 2), Row(3, 3), Row(4, NaN)>>,
      <<Row(1, 3), Row(2, 1)>>,
      <<>> }

Amounts(df) == [i \in 1..Len(df) |-> df[i].amount]

MaskInit ==
    /\ m_df \in MaskDatasets
    /\ m_group \in MaskGroups
    /\ m_done = {}
    /\ m_mask = <<>>
    /\ m_cmask = <<>>
    /\ m_eject = <<>>
    /\ m_incl = <<>>
    /\ ChainIdle
    /\ RaceIdle
    /\ ComplexIdle
    /\ DateIdle
    /\ ApplyIdle
    /\ TxIdle

EvalBuildMask ==
    /\ "build_mask" \notin m_done
    /\ m_mask' = build_mask(m_df, m_group)
    /\ m_done' = m_done \cup {"build_mask"}
    /\ UNCHANGED <<m_df, m_group, m_cmask, m_eject, m_incl, outsideMask>>

EvalBuildConditionMask ==
    /\ "build_condition_mask" \notin m_done
    /\ m_cmask' = build_condition_mask(Amounts(m_df), m_group)
    /\ m_done' = m_done \cup {"build_condition_mask"}
    /\ UNCHANGED <<m_df, m_group, m_mask, m_eject, m_incl, outsideMask>>

EvalPerformEjection ==
    /\ "perform_ejection" \notin m_done
    /\ m_eject' = [accept |-> perform_ejection(m_df, <<>>, m_group, "a", "accept"),
                   reject |-> perform_ejection(m_df, <<>>, m_group, "a", "reject")]
    /\ m_done' = m_done \cup {"perform_ejection"}
    /\ UNCHANGED <<m_df, m_group, m_mask, m_cmask, m_incl, outsideMask>>

\* the partition the inclusion moves rows into
MaskTarget == <<Row(8, 2), Row(9, 3)>>

EvalPerformInclusion ==
    /\ "perform_inclusion" \notin m_done
    /\ m_incl' = [accept |-> perform_inclusion(MaskTarget, m_df, m_group, "accept"),
                  reject |-> perform_inclusion(MaskTarget, m_df, m_group, "reject")]
    /\ m_done' = m_done \cup {"perform_inclusion"}
    /\ UNCHANGED <<m_df, m_group, m_mask, m_cmask, m_eject, outsideMask>>

MaskNext ==
    \/ EvalBuildMask
    \/ EvalBuildConditionMask
    \/ EvalPerformEjection
    \/ EvalPerformInclusion

SpecMask == MaskInit /\ [][MaskNext]_vars

(***************************************************************************)
(* Temporary phases of a transaction: each start handler copies the file   *)
(* of the previous step and registers a temp version for it                *)
(***************************************************************************)
MaxTempVersions == 4

TxId == "tx"

\* a cell of a file: the text of a number, or any other text
TextCell(s) == [text |-> s, num |-> NaN]

NumCell(n) == IF n = NaN THEN TextCell("nan") ELSE [text |-> "", num |-> n]

\* file content of the finished steps: column -> cells
StepData == [c \in {"amount"} |-> <<NumCell(1), NumCell(2)>>]

StepFilePath(field) == <<"step_file", field>>

\* {name}_temp_datatype_conversion, {name}_temp_new_columns, {name}_temp_rbi_rules
TempFilePath(suffix) == <<"temp", suffix>>

TxResponse(op, status) == [op |-> op, status |-> status]

TxReply(op, status) ==
    /\ tx_resp' = TxResponse(op, status)
    /\ UNCHANGED <<transaction, tx_versions, tx_files, tx_next>>

\* the body shared by the three start handlers, which differ in the source
\* field, the temp field, the temp file name, the version number and the flag
StartTempPhase(op, transaction_id, source_field, temp_field, suffix, version_number, flag) ==
    IF transaction_id = "" THEN TxReply(op, 400)
    ELSE IF transaction_id # TxId THEN TxReply(op, 404)
    ELSE IF transaction[source_field] = 0 THEN TxReply(op, 400)
    ELSE IF transaction[source_field] \notin DOMAIN tx_versions THEN TxReply(op, 404)
    ELSE IF tx_versions[transaction[source_field]].files_path \notin DOMAIN tx_files
         THEN TxReply(op, 404)
    ELSE LET source_file_path == tx_versions[transaction[source_field]].files_path
             temp_file_path == TempFilePath(suffix)
             temp_version_id == tx_next
         IN  /\ tx_next <= MaxTempVersions
             /\ tx_files' = Put(tx_files, temp_file_path, tx_files[source_file_path])
             /\ tx_versions' = Put(tx_versions, temp_version_id,
                                   [files_path |-> temp_file_path,
                                    version_number |-> version_number])
             /\ tx_next' = tx_next + 1
             /\ transaction' = [transaction EXCEPT
                                   ![temp_field] = temp_version_id,
                                   !.temp_steps = @ \cup {flag}]
             /\ tx_resp' = TxResponse(op, 200)

start_datatype_conversion_temp(transaction_id) ==
    StartTempPhase("start_datatype_conversion_temp", transaction_id,
                   "column_rename_file", "temp_changing_datatype_of_column",
                   "datatype_conversion", 3, "datatype_conversion_in_progress")

start_process_of_creating_new_columns(transaction_id) ==
    StartTempPhase("start_process_of_creating_new_columns", transaction_id,
                   "changed_datatype_of_column", "temp_new_column_adding",
                   "new_columns", 5, "new_fields_in_progress")

start_applying_rbi_rules(transaction_id) ==
    StartTempPhase("start_applying_rbi_rules", transaction_id,
                   "added_new_column_final", "temp_rbi_rules_applied",
                   "rbi_rules", 7, "rbi_rules_in_progress")

TransactionIds == {TxId, "", "unknown"}

StartDatatypeConversionTemp ==
    /\ \E transaction_id \in TransactionIds :
          start_datatype_conversion_temp(transaction_id)
    /\ UNCHANGED outsideTx

StartCreatingNewColumns ==
    /\ \E transaction_id \in TransactionIds :
          start_process_of_creating_new_columns(transaction_id)
    /\ UNCHANGED outsideTx

StartApplyingRbiRules ==
    /\ \E transaction_id \in TransactionIds :
          start_applying_rbi_rules(transaction_id)
    /\ UNCHANGED outsideTx

(***************************************************************************)
(* add_column_with_rules: a new column of the temp_new_column_adding file  *)
(* computed from a list of rule fragments.  The text of a number is        *)
(* identified with the number it parses to; the fragments of the model     *)
(* carry static values.                                                    *)
(***************************************************************************)
Fragment(isBoolean, column_one, operator, value, connector) ==
    [isBoolean |-> isBoolean, booleanValue |-> TRUE, column_one |-> column_one,
     operator |-> operator, value |-> value, connector |-> connector]

CalculationOperators == {"add", "subtract", "multiply", "divide", "modulo", "power"}

ConditionOperators ==
    {"equal", "equals", "not equal", "greater than", "less than",
     "greater than or equal", "less than or equal", "contains", "not contains"}

\* pd.to_numeric(errors='coerce') of a cell
ToNumeric(cell) == cell.num

\* apply_calculation on a column and a static number
apply_calculation(col1_values, operator, col2_values) ==
    [i \in 1..Len(col1_values) |->
        LET x == ToNumeric(col1_values[i])
        IN  IF x = NaN THEN NumCell(NaN)
            ELSE CASE operator = "add"      -> NumCell(x + col2_values)
                   [] operator = "multiply" -> NumCell(x * col2_values)
                   [] OTHER                 -> NumCell(x)]

\* apply_boolean_condition on a number column and a static number
apply_boolean_condition(col1_values, operator, col2_values) ==
    [i \in 1..Len(col1_values) |->
        LET x == ToNumeric(col1_values[i])
        IN  CASE operator = "greater than" -> NumGt(x, col2_values)
              [] operator = "less than"    -> NumLt(x, col2_values)
              [] OTHER                     -> TRUE]

PyStr(b) == IF b THEN TextCell("True") ELSE TextCell("False")

NoMask == <<"no mask">>

\* the local variables of add_column_with_rules while it walks the rules
ColumnState(column, mask, prev_connector, datatype, has_calculation, has_condition, processed, error) ==
    [column |-> column, mask |-> mask, prev_connector |-> prev_connector,
     datatype |-> datatype, has_calculation |-> has_calculation,
     has_condition |-> has_condition, processed |-> processed, error |-> error]

\* rule fragments that only declare the boolean outcome
IsBooleanSpec(rule) == rule.isBoolean

ExpectsBoolean(rules) == \E i \in 1..Len(rules) : IsBooleanSpec(rules[i])

\* one iteration of the rule loop
ProcessFragment(st, df, new_column_name, rule, final_boolean_value) ==
    LET column_one == IF rule.column_one = "column being created"
                      THEN new_column_name ELSE rule.column_one
        connector == IF rule.connector = "" THEN "FINAL" ELSE rule.connector
        is_calculation == rule.operator \in CalculationOperators
        is_condition == rule.operator \in ConditionOperators
        col1_values == IF column_one = new_column_name THEN st.column
                       ELSE df[column_one]
        n == Len(st.column)
        seen == [st EXCEPT !.has_calculation = @ \/ is_calculation,
                           !.has_condition = @ \/ is_condition,
                           !.processed = @ + 1]
    IN  IF st.error # 0 \/ IsBooleanSpec(rule) THEN st
        ELSE IF column_one = new_column_name /\ st.processed = 0
             THEN [st EXCEPT !.error = 400]
        ELSE IF column_one # new_column_name /\ column_one \notin DOMAIN df
             THEN [st EXCEPT !.error = 404]
        ELSE IF connector = "THEN" /\ is_condition
             THEN LET condition_mask ==
                         apply_boolean_condition(col1_values, rule.operator, rule.value)
                      final_mask ==
                         IF st.mask = NoMask THEN condition_mask
                         ELSE [i \in 1..n |->
                                 IF st.prev_connector = "OR"
                                 THEN st.mask[i] \/ condition_mask[i]
                                 ELSE st.mask[i] /\ condition_mask[i]]
                  IN  [seen EXCEPT
                          !.datatype = "boolean",
                          !.column = [i \in 1..n |->
                                        IF final_mask[i] THEN PyStr(final_boolean_value)
                                        ELSE PyStr(~final_boolean_value)],
                          !.mask = NoMask,
                          !.prev_connector = "None"]
        ELSE IF connector \in {"AND", "OR"} /\ is_condition
             THEN LET condition_mask ==
                         apply_boolean_condition(col1_values, rule.operator, rule.value)
                  IN  [seen EXCEPT
                          !.mask =
                             IF st.mask = NoMask THEN condition_mask
                             ELSE IF st.prev_connector = "AND"
                                  THEN [i \in 1..n |-> st.mask[i] /\ condition_mask[i]]
                             ELSE IF st.prev_connector = "OR"
                                  THEN [i \in 1..n |-> st.mask[i] \/ condition_mask[i]]
                             ELSE st.mask,
                          !.prev_connector = connector]
        ELSE LET result == apply_calculation(col1_values, rule.operator, rule.value)
             IN  [seen EXCEPT
                     !.column = IF st.mask = NoMask THEN result
                                ELSE [i \in 1..n |->
                                        IF st.mask[i] THEN result[i] ELSE st.column[i]],
                     !.datatype = "number",
                     !.mask = IF connector \in {"AND", "OR"} THEN st.mask ELSE NoMask,
                     !.prev_connector =
                        IF connector \in {"AND", "OR"} THEN connector ELSE "None"]

RECURSIVE ProcessRules(_, _, _, _, _)
ProcessRules(st, df, new_column_name, rules, final_boolean_value) ==
    IF rules = <<>> THEN st
    ELSE ProcessRules(ProcessFragment(st, df, new_column_name, Head(rules),
                                      final_boolean_value),
                      df, new_column_name, Tail(rules), final_boolean_value)

\* astype(str) and the replacement of 'None' by ''
StoredCell(cell) == IF cell = TextCell("None") THEN TextCell("") ELSE cell

BooleanWithoutCondition_unchecked(is_expecting_boolean, walked) == FALSE

\* the validation after the rule loop: a boolean outcome is expected but only
\* calculations ran
BooleanWithoutCondition(is_expecting_boolean, walked) ==
    is_expecting_boolean /\ walked.has_calculation /\ ~walked.has_condition

add_column_with_rules(transaction_id, new_column_name, rules) ==
    LET op == "add_column_with_rules"
    IN  IF transaction_id = "" \/ new_column_name = "" \/ rules = <<>>
        THEN TxReply(op, 400)
        ELSE IF transaction_id # TxId THEN TxReply(op, 404)
        ELSE IF transaction.temp_new_column_adding = 0 THEN TxReply(op, 400)
        ELSE IF transaction.temp_new_column_adding \notin DOMAIN tx_versions
             THEN TxReply(op, 404)
        ELSE IF tx_versions[transaction.temp_new_column_adding].files_path
                   \notin DOMAIN tx_files
             THEN TxReply(op, 404)
        ELSE
          LET file_path == tx_versions[transaction.temp_new_column_adding].files_path
              df == tx_files[file_path]
              n == Len(df["amount"])
              is_expecting_boolean == ExpectsBoolean(rules)
              final_boolean_value == TRUE
              walked == ProcessRules(
                            ColumnState([i \in 1..n |-> TextCell("None")], NoMask, "None",
                                        "text", FALSE, FALSE, 0, 0),
                            df, new_column_name, rules, final_boolean_value)
              pending == walked.mask # NoMask /\ is_expecting_boolean
              column == IF pending
                        THEN [i \in 1..n |-> IF walked.mask[i]
                                              THEN PyStr(final_boolean_value)
                                              ELSE PyStr(~final_boolean_value)]
                        ELSE walked.column
              new_column_datatype ==
                  IF is_expecting_boolean THEN "boolean" ELSE walked.datatype
          IN  IF walked.error # 0 THEN TxReply(op, walked.error)
              ELSE IF BooleanWithoutCondition(is_expecting_boolean, walked)
                   THEN TxReply("add_column_with_rules: invalid rule configuration", 400)
              ELSE /\ tx_files' = Put(tx_files, file_path,
                                      Put(df, new_column_name,
                                          [i \in 1..n |-> StoredCell(column[i])]))
                   /\ transaction' =
                         [transaction EXCEPT
                             !.new_added_columns_datatype =
                                 Put(@, new_column_name, new_column_datatype)]
                   /\ tx_resp' = TxResponse(op, 200)
                   /\ UNCHANGED <<tx_versions, tx_next>>

BooleanSpec == Fragment(TRUE, "", "", 0, "")

Fragments ==
    { BooleanSpec,
      Fragment(FALSE, "amount", "add", 1, ""),
      Fragment(FALSE, "amount", "greater than", 1, "THEN"),
      Fragment(FALSE, "amount", "less than", 2, "OR"),
      Fragment(FALSE, "no_such_column", "add", 1, ""),
      Fragment(FALSE, "column being created", "add", 1, "") }

MaxFragments == 2

ColumnRules == UNION { [1..k -> Fragments] : k \in 0..MaxFragments }

AddColumnWithRules ==
    /\ \E request \in {<<TxId, "flag">>, <<"", "flag">>, <<TxId, "">>},
          rules \in ColumnRules :
          add_column_with_rules(request[1], request[2], rules)
    /\ UNCHANGED outsideTx

TxNext ==
    \/ StartDatatypeConversionTemp
    \/ StartCreatingNewColumns
    \/ StartApplyingRbiRules

\* the new-columns phase on its own: starting it and adding columns
ColumnNext ==
    \/ StartCreatingNewColumns
    \/ AddColumnWithRules

StepFields == <<"column_rename_file", "changed_datatype_of_column",
                "added_new_column_final">>

\* a transaction that has finished the first k steps: step i is version 100+i
Finished(k) ==
    [NoTransaction EXCEPT
        !.column_rename_file = IF k >= 1 THEN 101 ELSE 0,
        !.changed_datatype_of_column = IF k >= 2 THEN 102 ELSE 0,
        !.added_new_column_final = IF k >= 3 THEN 103 ELSE 0]

TxInit ==
    /\ \E k \in 0..3 :
          /\ transaction = Finished(k)
          /\ tx_versions = [id \in {100 + i : i \in 1..k} |->
                               [files_path |-> StepFilePath(StepFields[id - 100]),
                                version_number |-> 2 * (id - 100)]]
          /\ tx_files = [path \in {StepFilePath(StepFields[i]) : i \in 1..k} |-> StepData]
    /\ tx_next = 1
    /\ tx_resp = TxResponse("none", 0)
    /\ ChainIdle
    /\ RaceIdle
    /\ ComplexIdle
    /\ DateIdle
    /\ MaskIdle
    /\ ApplyIdle

SpecTx == TxInit /\ [][TxNext]_vars

SpecColumn == TxInit /\ [][ColumnNext]_vars

(***************************************************************************)
(* apply_complex_rules_to_file as a pure function of a file and a rule     *)
(* list.                                                                   *)
(***************************************************************************)
MaxGroups == 2

ComplexDatasets == { <<1, 2, 3, NaN>>, <<3, 1>>, <<2>>, <<>> }

ComplexGroups ==
    { <<>>,
      <<Cond("amount", "greater than", 2, "THEN", "reject")>>,
      <<Cond("amount", "greater than", 1, "THEN", "accept")>>,
      <<Cond("amount", "less than", 2, "THEN", "absent")>>,
      <<Cond("amount", "less than", 3, "OR", "absent"),
        Cond("amount", "not equal to", 3, "THEN", "accept")>>,
      <<Cond("no_such_column", "equal to", 1, "THEN", "accept")>> }

ComplexInit ==
    /\ c_df \in ComplexDatasets
    /\ c_rules \in UNION {[1..k -> ComplexGroups] : k \in 0..MaxGroups}
    /\ c_out = <<>>
    /\ ChainIdle
    /\ RaceIdle
    /\ DateIdle
    /\ MaskIdle
    /\ ApplyIdle
    /\ TxIdle

EvalApplyComplexRules ==
    /\ c_out = <<>>
    /\ c_out' = complex_rules_return(c_df, c_rules)
    /\ UNCHANGED <<c_df, c_rules, outsideComplex>>

ComplexNext == EvalApplyComplexRules

SpecComplex == ComplexInit /\ [][ComplexNext]_vars

(***************************************************************************)
(* Date conditions.  A date text "a/b/2024" is the record of its two       *)
(* leading fields; a timestamp is a day and a month of that year.  The     *)
(* three parsers are the three ways the evaluators call pd.to_datetime.    *)
(***************************************************************************)
Months == 1..12

\* fields of the texts: three that can be a day or a month, one only a day
DateFields == {1, 2, 12, 13}

DateTexts == [first : DateFields, second : DateFields]

NaT == [day |-> 0, month |-> 0]

Timestamp(d, m) == [day |-> d, month |-> m]

\* pd.to_datetime(text, dayfirst=True): the first field is the day when the
\* second can be a month, otherwise the fields are swapped
to_datetime_dayfirst(t) ==
    IF t.second \in Months THEN Timestamp(t.first, t.second)
    ELSE IF t.first \in Months THEN Timestamp(t.second, t.first)
    ELSE NaT

\* pd.to_datetime(text): the first field is the month when it can be one
to_datetime(t) ==
    IF t.first \in Months THEN Timestamp(t.second, t.first)
    ELSE IF t.second \in Months THEN Timestamp(t.first, t.second)
    ELSE NaT

\* pd.to_datetime(text, format='%d/%m/%Y'): day then month, nothing else
to_datetime_format(t) ==
    IF t.second \in Months THEN Timestamp(t.first, t.second) ELSE NaT

Ordinal(ts) == 32 * ts.month + ts.day

\* comparison of two timestamps; NaT is unequal to everything and unordered
CompareDates(cmp, x, y) ==
    LET both == x # NaT /\ y # NaT
    IN  CASE cmp = "eq" -> both /\ x = y
          [] cmp = "ne" -> ~(both /\ x = y)
          [] cmp = "gt" -> both /\ Ordinal(x) > Ordinal(y)
          [] cmp = "lt" -> both /\ Ordinal(x) < Ordinal(y)
          [] cmp = "ge" -> both /\ Ordinal(x) >= Ordinal(y)
          [] cmp = "le" -> both /\ Ordinal(x) <= Ordinal(y)

\* ApplyRule.build_condition on a date column: equality compares the texts,
\* the orderings parse both sides day first
build_condition_date(cell, op, val) ==
    CASE op = "equal to" -> cell = val
      [] op = "not equal to" -> cell # val
      [] op = "greater than" ->
            CompareDates("gt", to_datetime_dayfirst(cell), to_datetime_dayfirst(val))
      [] op = "less than" ->
            CompareDates("lt", to_datetime_dayfirst(cell), to_datetime_dayfirst(val))
      [] OTHER -> FALSE

SingleConditionComparisons ==
    [op \in {"equal to", "equals", "not equal to", "greater than", "less than",
             "greater than or equal", "less than or equal"} |->
        CASE op \in {"equal to", "equals"} -> "eq"
          [] op = "not equal to" -> "ne"
          [] op = "greater than" -> "gt"
          [] op = "less than" -> "lt"
          [] op = "greater than or equal" -> "ge"
          [] op = "less than or equal" -> "le"]

\* the literal of build_single_condition as the source parses it
single_condition_literal(val) == to_datetime(val)

\* build_single_condition on a date column: the column is parsed day first,
\* the literal by single_condition_literal; a literal that is no date raises
\* and the handler answers False
build_single_condition_date(cell, op, val) ==
    IF op \notin DOMAIN SingleConditionComparisons THEN FALSE
    ELSE IF single_condition_literal(val) = NaT THEN FALSE
    ELSE CompareDates(SingleConditionComparisons[op],
                      to_datetime_dayfirst(cell), single_condition_literal(val))

BooleanConditionComparisons ==
    [op \in {"equal", "equals", "not equal", "greater than", "less than",
             "greater than or equal", "less than or equal"} |->
        CASE op \in {"equal", "equals"} -> "eq"
          [] op = "not equal" -> "ne"
          [] op = "greater than" -> "gt"
          [] op = "less than" -> "lt"
          [] op = "greater than or equal" -> "ge"
          [] op = "less than or equal" -> "le"]

\* apply_boolean_condition with col1_datatype 'date' and a static literal:
\* both sides by the format dd/mm/yyyy, the literal falling back to the
\* default parse when the format does not fit; an unknown operator is True
apply_boolean_condition_date(cell, op, val) ==
    LET col1 == to_datetime_format(cell)
        col2 == IF to_datetime_format(val) # NaT THEN to_datetime_format(val)
                ELSE to_datetime(val)
    IN  IF op \notin DOMAIN BooleanConditionComparisons THEN TRUE
        ELSE CompareDates(BooleanConditionComparisons[op], col1, col2)

DateOperators ==
    DOMAIN SingleConditionComparisons \cup DOMAIN BooleanConditionComparisons

DateInit ==
    /\ d_cell \in DateTexts
    /\ d_lit \in DateTexts
    /\ d_op \in DateOperators
    /\ d_out = <<>>
    /\ ChainIdle
    /\ RaceIdle
    /\ ComplexIdle
    /\ MaskIdle
    /\ ApplyIdle
    /\ TxIdle

Answered(name, answer) ==
    [e \in DOMAIN d_out \cup {name} |-> IF e = name THEN answer ELSE d_out[e]]

EvalBuildCondition ==
    /\ "build_condition" \notin DOMAIN d_out
    /\ d_out' = Answered("build_condition",
                          build_condition_date(d_cell, d_op, d_lit))
    /\ UNCHANGED <<d_cell, d_lit, d_op, outsideDate>>

EvalBuildSingleCondition ==
    /\ "build_single_condition" \notin DOMAIN d_out
    /\ d_out' = Answered("build_single_condition",
                          build_single_condition_date(d_cell, d_op, d_lit))
    /\ UNCHANGED <<d_cell, d_lit, d_op, outsideDate>>

EvalApplyBooleanCondition ==
    /\ "apply_boolean_condition" \notin DOMAIN d_out
    /\ d_out' = Answered("apply_boolean_condition",
                          apply_boolean_condition_date(d_cell, d_op, d_lit))
    /\ UNCHANGED <<d_cell, d_lit, d_op, outsideDate>>

DateNext == EvalBuildCondition \/ EvalBuildSingleCondition \/ EvalApplyBooleanCondition

SpecDate == DateInit /\ [][DateNext]_vars

(***************************************************************************)
(* Claims about the version chain (checked under SpecChain)                *)
(***************************************************************************)

\* C1: in every reachable state every version has at most one version whose
\* parent_version_id points to it.
C1_AtMostOneChild ==
    \A v \in DOMAIN versions : Cardinality(Children(versions, v)) <= 1

\* an append was rejected because the parent already has its one child
C1_Witness ==
    /\ resp.op = "append"
    /\ resp.error = "child_exists"
    /\ Cardinality(Children(versions, resp.arg)) = 1

\* C2: an append-child request on a parent that already has a child fails and
\* leaves the version store and the file store unchanged; a create-root request
\* issued right after such a failure succeeds and inserts a new root.
C2_RejectedAppendChangesNothing ==
    [][ /\ (resp'.op = "append" /\ FindChild(versions, resp'.arg) # NoId)
            => (resp'.status # 200 /\ versions' = versions /\ files' = files)
        /\ (resp.op = "append" /\ resp.error = "child_exists"
              /\ resp'.op = "create_root" /\ resp'.error # "missing_fields")
            => (/\ resp'.status = 200
                /\ DOMAIN versions' = DOMAIN versions \cup {nextId}
                /\ versions'[nextId].parent_version_id = NoId
                /\ versions'[nextId].files_path \in DOMAIN files') ]_vars

\* a root was created right after an append was rejected for an existing child
C2_Witness ==
    /\ prevResp = [op |-> "append", error |-> "child_exists"]
    /\ resp.op = "create_root"
    /\ resp.status = 200

\* C3: in every chain the root has branch_number 0 and every child's
\* branch_number is its parent's branch_number plus 1.
C3_BranchNumbering ==
    \A v \in DOMAIN versions :
        IF versions[v].parent_version_id = NoId
        THEN versions[v].branch_number = 0
        ELSE /\ versions[v].parent_version_id \in DOMAIN versions
             /\ versions[v].branch_number =
                    versions[versions[v].parent_version_id].branch_number + 1

\* a node was spliced out of a chain and its child, which has a child of its
\* own, now hangs under the node's former parent
C3_Witness ==
    /\ resp.op = "delete_sub"
    /\ resp.status = 200
    /\ ~resp.delete_children
    /\ \E c \in DOMAIN versions :
          /\ versions[c].parent_version_id # NoId
          /\ versions[c].parent_version_id < resp.arg
          /\ resp.arg < c
          /\ Children(versions, c) # {}

IsChain4(vs, r, v1, v2, v3) ==
    /\ {r, v1, v2, v3} \subseteq DOMAIN vs
    /\ vs[r].parent_version_id = NoId /\ vs[r].branch_number = 0
    /\ vs[v1].parent_version_id = r /\ vs[v1].branch_number = 1
    /\ vs[v2].parent_version_id = v1 /\ vs[v2].branch_number = 2
    /\ vs[v3].parent_version_id = v2 /\ vs[v3].branch_number = 3

\* C4: on a chain root(0) -> v1(1) -> v2(2) -> v3(3), delete_sub_version on v1
\* with delete_children = false removes only v1, re-parents v2 to root, keeps
\* v3 under v2 and leaves the numbers root 0, v2 1, v3 2.
C4_SpliceRenumbers ==
    [][ LET v1 == resp'.arg
            r  == versions[v1].parent_version_id
            v2 == FindChild(versions, v1)
            v3 == FindChild(versions, v2)
        IN  (/\ resp'.op = "delete_sub"
             /\ ~resp'.delete_children
             /\ v1 \in DOMAIN versions
             /\ v2 # NoId
             /\ v3 # NoId
             /\ IsChain4(versions, r, v1, v2, v3))
            => (/\ resp'.status = 200
                /\ DOMAIN versions' = DOMAIN versions \ {v1}
                /\ versions'[r] = versions[r]
                /\ versions'[v2].parent_version_id = r
                /\ versions'[v3].parent_version_id = v2
                /\ versions'[r].branch_number = 0
                /\ versions'[v2].branch_number = 1
                /\ versions'[v3].branch_number = 2) ]_vars

\* v1 has just been spliced out of a four-version chain
C4_Witness ==
    /\ resp.op = "delete_sub"
    /\ resp.status = 200
    /\ ~resp.delete_children
    /\ resp.arg \notin DOMAIN versions
    /\ \E r, v2, v3 \in DOMAIN versions :
          /\ r < resp.arg /\ resp.arg < v2
          /\ versions[r].parent_version_id = NoId /\ versions[r].branch_number = 0
          /\ versions[v2].parent_version_id = r /\ versions[v2].branch_number = 1
          /\ versions[v3].parent_version_id = v2 /\ versions[v3].branch_number = 2

(***************************************************************************)
(* Claims about the combinators (checked under SpecMask)                   *)
(***************************************************************************)
ConnectorsOf(g) == [i \in 1..Len(g) |-> g[i].connector]

\* C7: ApplyRule.build_mask on three conditions with connectors
\* [OR, AND, THEN] yields (c1 OR c2) AND c3 for every row.
C7_BuildMaskUsesPreviousConnector ==
    ("build_mask" \in m_done /\ Len(m_group) = 3
        /\ ConnectorsOf(m_group) = <<"OR", "AND", "THEN">>)
    => \A k \in 1..Len(m_df) :
          m_mask[k] = ((build_condition(m_df, m_group[1])[k]
                          \/ build_condition(m_df, m_group[2])[k])
                       /\ build_condition(m_df, m_group[3])[k])

\* the left fold of the claim, accumulated from the first condition onwards:
\* condition i joins with OR iff condition i-1 carries OR, with AND otherwise
RECURSIVE C8_FoldFrom(_, _, _, _)
C8_FoldFrom(acc, df, g, i) ==
    IF i > Len(g) THEN acc
    ELSE C8_FoldFrom(IF g[i - 1].connector = "OR"
                     THEN acc \/ build_single_condition(df, g[i])[1]
                     ELSE acc /\ build_single_condition(df, g[i])[1],
                     df, g, i + 1)

\* C8: build_condition_mask is, for every rule group and every row, the left
\* fold in encounter order in which condition i is joined with OR if condition
\* i-1's connector is OR and with AND otherwise.
C8_ChainMaskIsLeftFold ==
    ("build_condition_mask" \in m_done /\ m_group # <<>>)
    => \A k \in 1..Len(m_df) :
          m_cmask[k] =
              C8_FoldFrom(build_single_condition(<<m_df[k].amount>>, m_group[1])[1],
                          <<m_df[k].amount>>, m_group, 2)

\* a three-condition group [OR, AND, ..] was evaluated on a row where
\* (c1 OR c2) AND c3 and c1 OR (c2 AND c3) disagree
C8_Witness ==
    /\ "build_condition_mask" \in m_done
    /\ Len(m_group) = 3
    /\ m_group[1].connector = "OR"
    /\ m_group[2].connector = "AND"
    /\ \E k \in 1..Len(m_df) :
          LET c(i) == build_single_condition(Amounts(m_df), m_group[i])[k]
          IN  /\ ((c(1) \/ c(2)) /\ c(3)) # (c(1) \/ (c(2) /\ c(3)))
              /\ m_cmask[k] = ((c(1) \/ c(2)) /\ c(3))

Replied(status) == pc = 0 /\ apply_status = status

\* partitions flagged for rule addition, plus untagged
CountedTags ==
    {t \in DOMAIN split_with_tags :
        t = UntaggedKey \/ split_with_tags[t].sent_for_rule_addition}

RECURSIVE RowsBefore(_)
RowsBefore(tags) ==
    IF tags = <<>> THEN 0
    ELSE (IF Head(tags) \in CountedTags THEN Len(split_with_tags[Head(tags)].rows) ELSE 0)
         + RowsBefore(Tail(tags))

RECURSIVE RowsAfter(_)
RowsAfter(saved) ==
    IF saved = <<>> THEN 0
    ELSE (IF Head(saved).tag_name \in CountedTags THEN Head(saved).rows_count ELSE 0)
         + RowsAfter(Tail(saved))

\* C5: after every successful run the temp versions persisted for the
\* flagged partitions and untagged hold as many rows as those partitions
\* held before the run, whatever the ejection and inclusion rules.
C5_RowConservation ==
    Replied("success") => RowsAfter(temp_files) = RowsBefore(TagOrder)

Events(kind) == {i \in 1..Len(trace) : trace[i].kind = kind}

MovedBy(S) == UNION {trace[i].moved : i \in S}

RECURSIVE GroupsOfLoaded(_)
GroupsOfLoaded(entries) ==
    IF entries = <<>> THEN 0
    ELSE (IF Head(entries).tag_name \in LoadedTags THEN Len(Head(entries).rules) ELSE 0)
         + GroupsOfLoaded(Tail(entries))

\* C6: in a run every ejection rule group has moved its rows into untagged
\* before the first inclusion rule group evaluates its mask, and each
\* inclusion mask is evaluated on the untagged partition as left by all the
\* ejections and all the earlier inclusions.
C6_EjectionsBeforeInclusions ==
    /\ \A i \in Events("include"), j \in Events("eject") : j < i
    /\ Events("include") # {} =>
          Cardinality(Events("eject")) = GroupsOfLoaded(data.ejection)
    /\ \A i \in Events("include") :
          trace[i].seen =
             (Rids(LoadedUntagged) \cup MovedBy(Events("eject")))
             \ MovedBy({j \in Events("include") : j < i})

C6_Witness ==
    /\ Replied("success")
    /\ \E j \in Events("eject"), i, k \in Events("include") :
          /\ i < k
          /\ trace[j].moved \cap trace[i].moved # {}
          /\ trace[k].moved # {}
          /\ trace[k].seen \cap trace[i].moved = {}

ScenarioHot == {r \in 1..10 : split_with_tags["a"].rows[r].amount > 100}

\* C10: with ten rows in a, three of them above 100, and no such row in
\* untagged, the run with ejection {amount > 100 THEN reject} on a and the
\* inclusion {amount > 100 THEN accept} on b leaves a with the seven other
\* rows, puts exactly the three rows into untagged with from_tag = a, and
\* then moves exactly those three rows from untagged into b.
C10_ScenarioMoves ==
    (pc = 0 /\ apply_status # "none") =>
        /\ Len(dfs["a"]) = 7
        /\ Rids(dfs["a"]) = (1..10) \ ScenarioHot
        /\ Len(trace) = 2
        /\ trace[1].kind = "eject" /\ trace[1].moved = ScenarioHot
        /\ \E i \in 1..Len(ejected_rows) :
              /\ ejected_rows[i].key = "a"
              /\ Rids(ejected_rows[i].rows) = ScenarioHot
              /\ \A k \in 1..Len(ejected_rows[i].rows) :
                    ejected_rows[i].rows[k].from_tag = "a"
        /\ trace[2].kind = "include" /\ trace[2].moved = ScenarioHot
        /\ Rids(dfs["b"]) = Rids(split_with_tags["b"].rows) \cup ScenarioHot
        /\ Rids(dfs[UntaggedKey]) = Rids(split_with_tags[UntaggedKey].rows)

\* the scenario does hold on the runs whose untagged partition holds a row
ScenarioMovesWhenUntaggedLoaded ==
    split_with_tags[UntaggedKey].rows # <<>> => C10_ScenarioMoves

\* the action the last condition of a rule group declares, reject when the
\* then field is absent
DeclaredAction(rule_group) ==
    IF rule_group[Len(rule_group)].then = "absent" THEN "reject"
    ELSE rule_group[Len(rule_group)].then

\* C11: every rule group of an ejection rule and of an inclusion rule is
\* applied with the action of its last condition's then field, and with
\* reject when that field is absent.
C11_DefaultActionReject ==
    /\ \A i \in 1..Len(ejection_results) :
          ejection_results[i].rule_type = DeclaredAction(ejection_results[i].rule_group)
    /\ \A i \in 1..Len(inclusion_results) :
          inclusion_results[i].rule_type = DeclaredAction(inclusion_results[i].rule_group)

\* every condition of the group names a column the partitions do not have
MissingColumnGroup(rule_group) ==
    /\ rule_group # <<>>
    /\ \A i \in 1..Len(rule_group) : rule_group[i].column \notin ApplyColumns

\* C12: a rule group whose conditions name a column absent from the dataset
\* moves no row, in ejection and in inclusion, under accept and under reject.
C12_MissingColumnMovesNothing ==
    /\ \A i \in 1..Len(ejection_results) :
          MissingColumnGroup(ejection_results[i].rule_group)
             => ejection_results[i].count = 0
    /\ \A i \in 1..Len(inclusion_results) :
          MissingColumnGroup(inclusion_results[i].rule_group)
             => inclusion_results[i].count = 0

TempSuffixes == {"datatype_conversion", "new_columns", "rbi_rules"}

TempVersionsOf(suffix) ==
    {id \in DOMAIN tx_versions : tx_versions[id].files_path = TempFilePath(suffix)}

\* C13: after any sequence of phase-start calls at most one set of temp
\* artifacts exists per step: the temp version records of earlier starts of
\* the step are gone when the new one is created.
C13_OneTempSetPerStep ==
    \A suffix \in TempSuffixes : Cardinality(TempVersionsOf(suffix)) <= 1

\* C14: when a run failed in the middle of persisting its temp versions, the
\* clear step of the next apply_rules request deletes every temp version
\* record and temp file the failed run created.
C14_RetryClearsFailedRun ==
    [][(pc = 0 /\ apply_status = "error" /\ pc' = 1)
          => \A v \in proj_versions :
                v.run = runs
                   => /\ v \notin proj_versions'
                      /\ v.files_path \notin DOMAIN proj_files']_vars

HasCalculation(rules) ==
    \E i \in 1..Len(rules) :
        ~IsBooleanSpec(rules[i]) /\ rules[i].operator \in CalculationOperators

HasCondition(rules) ==
    \E i \in 1..Len(rules) :
        ~IsBooleanSpec(rules[i]) /\ rules[i].operator \in ConditionOperators

\* the calculation fragments name existing columns and the first of them does
\* not read the column being created
WellFormed(rules) ==
    LET real == SelectSeq(rules, LAMBDA r : ~IsBooleanSpec(r))
    IN  /\ \A i \in 1..Len(real) :
              real[i].column_one \in {"amount", "column being created"}
        /\ real # <<>> => real[1].column_one = "amount"

\* C15: add_column_with_rules with rules that declare a boolean outcome and
\* hold calculation fragments but no condition fragment answers with the
\* validation error and leaves the file and new_added_columns_datatype
\* unchanged.
C15_BooleanWithoutConditionRejected ==
    [][\A rules \in ColumnRules :
          (/\ ExpectsBoolean(rules) /\ HasCalculation(rules) /\ ~HasCondition(rules)
           /\ add_column_with_rules(TxId, "flag", rules))
          => /\ tx_resp'.status >= 400
             /\ tx_files' = tx_files
             /\ transaction' = transaction
             /\ (WellFormed(rules) /\ transaction.temp_new_column_adding # 0)
                   => tx_resp' = TxResponse(
                         "add_column_with_rules: invalid rule configuration", 400)]_vars

\* the validation error was answered on a started phase whose file exists
C15_Witness ==
    /\ tx_resp = TxResponse("add_column_with_rules: invalid rule configuration", 400)
    /\ transaction.temp_new_column_adding # 0
    /\ TempFilePath("new_columns") \in DOMAIN tx_files

\* operators by which an evaluator asks for equality, and for a strict order
EqualityOperators ==
    [e \in {"build_condition", "build_single_condition", "apply_boolean_condition"} |->
        CASE e = "build_condition" -> {"equal to"}
          [] e = "build_single_condition" -> {"equal to", "equals"}
          [] e = "apply_boolean_condition" -> {"equal", "equals"}]

StrictOperators == {"greater than", "less than"}

\* C16: on a date column every evaluator reads the cell and the literal by
\* the same day-first convention: a dd/mm/yyyy literal and a cell holding the
\* same text compare equal (equality holds, neither is before the other).
C16_SameTextComparesEqual ==
    \A e \in DOMAIN d_out :
        (d_cell = d_lit /\ d_cell.second \in Months) =>
            /\ d_op \in EqualityOperators[e] => d_out[e]
            /\ d_op \in StrictOperators => ~d_out[e]

\* the request has an ejection rule on a tag whose partition is not loaded
NamesUnloadedTag ==
    \E i \in 1..Len(data.ejection) : data.ejection[i].tag_name \notin LoadedTags

\* C17: an apply_rules request with an ejection rule naming a tag that has
\* no loaded partition is reported as a failure, and no step of it deletes or
\* writes a temp file, an audit file or a version record.
C17_UnloadedTagFailsUnchanged ==
    [][NamesUnloadedTag => (apply_status' # "success" /\ UNCHANGED storeVars)]_vars

\* C18: no two live rule-application versions of the transaction share a
\* files_path.
C18_DistinctFilesPaths ==
    \A v, w \in DOMAIN versions :
        v # w => versions[v].files_path # versions[w].files_path

\* the rows of the untagged dataset the group's mask is true on (matching)
\* or false on
MaskedRows(matching) ==
    LET mask == build_mask(m_df, m_group)
    IN  Select(m_df, IF matching THEN mask ELSE Not(mask))

\* the rows ignoring the from_tag stamp of the move
Plain(rows) == [i \in 1..Len(rows) |-> Row(rows[i].rid, rows[i].amount)]

\* a result of perform_inclusion moved exactly the rows moved out of m_df
MovedExactly(result, moved, kept) ==
    IF moved = <<>>
    THEN /\ result.target = MaskTarget
         /\ result.untagged = m_df
         /\ result.count = 0
    ELSE /\ Plain(result.rows) = Plain(moved)
         /\ Plain(result.target) = Plain(MaskTarget \o moved)
         /\ result.untagged = kept
         /\ result.count = Len(moved)

ListedAudit == VersionIds(rows_removed_files) \cup VersionIds(rows_added_files)

\* the live version records of audit files
LiveAudit ==
    {v \in proj_versions : v.files_path[1] \in {"rows_removed", "rows_added"}}

\* the lists reference live, non-empty audit versions and no other audit
\* version is live
AuditListsExact ==
    /\ ListedAudit = LiveAudit
    /\ \A v \in ListedAudit :
          /\ v.files_path \in DOMAIN proj_files
          /\ proj_files[v.files_path] # <<>>
    /\ \A i \in 1..Len(rows_removed_files) : rows_removed_files[i].rows_count > 0
    /\ \A i \in 1..Len(rows_added_files) : rows_added_files[i].rows_count > 0

\* C20 as stated: after any sequence of apply_rules runs the tracking lists
\* reference only audit versions written by the most recent run, and each of
\* them holds at least one row.
C20_AuditOfMostRecentRun ==
    pc = 0 => /\ AuditListsExact
              /\ \A v \in ListedAudit : v.run = runs

\* C20, amended: the tracking lists reference only audit versions written by
\* one run, the most recent run that reached the tracking step (a run that
\* failed before it leaves the lists of the run before); after a successful
\* run that is the most recent run; each listed version holds at least one
\* row and no other audit version is live.
C20_AuditOfLastTrackingRun ==
    /\ AuditListsExact
    /\ \A v, w \in ListedAudit : v.run = w.run
    /\ \A v \in ListedAudit : v.run <= runs
    /\ (pc = 0 /\ apply_status = "success") => \A v \in ListedAudit : v.run = runs

\* a second run succeeded after a first one, both left audit versions, and
\* a ledger entry without rows was skipped
C20_Witness ==
    /\ pc = 0
    /\ apply_status = "success"
    /\ runs = 2
    /\ rows_removed_files # <<>>
    /\ rows_added_files # <<>>
    /\ \E i \in 1..Len(ejected_rows) : ejected_rows[i].rows = <<>>

(***************************************************************************)
(* Further claims about the version chain                                  *)
(***************************************************************************)
\* the versions a child-link walk from id visits: id and its descendants
RECURSIVE ChainFrom(_, _)
ChainFrom(vs, id) ==
    IF id \notin DOMAIN vs THEN {}
    ELSE {id} \cup UNION {ChainFrom(vs, c) : c \in Children(vs, id)}

\* the records of the versions outside gone are as before
RecordsKept(gone) ==
    /\ DOMAIN versions' = DOMAIN versions \ gone
    /\ \A v \in DOMAIN versions' : versions'[v] = versions[v]

\* the backing files of the versions in gone are deleted and no other file
FilesKept(gone) ==
    /\ DOMAIN files' = DOMAIN files \ {versions[v].files_path : v \in gone}
    /\ \A v \in DOMAIN versions' :
          versions[v].files_path \in DOMAIN files
             => versions[v].files_path \in DOMAIN files'

\* the record part of C21 alone
DeleteChainRecordsExact ==
    [][(resp'.op = "delete_chain" /\ resp'.arg \in DOMAIN versions)
          => /\ RecordsKept(ChainFrom(versions, resp'.arg))
             /\ rule_application_root_versions' =
                    SelectSeq(rule_application_root_versions,
                              LAMBDA x : x # resp'.arg)]_vars

\* C21: delete_rule_version on version N deletes exactly N and its
\* descendants, records and backing files, leaves every other version and its
\* backing file as they were, and takes N out of the root list exactly when
\* it is listed there.
C21_DeleteChainExact ==
    [][(resp'.op = "delete_chain" /\ resp'.arg \in DOMAIN versions)
          => /\ RecordsKept(ChainFrom(versions, resp'.arg))
             /\ FilesKept(ChainFrom(versions, resp'.arg))
             /\ rule_application_root_versions' =
                    SelectSeq(rule_application_root_versions,
                              LAMBDA x : x # resp'.arg)]_vars

(***************************************************************************)
(* Claims about apply_complex_rules_to_file (checked under SpecComplex)    *)
(***************************************************************************)
\* the rows a group leaves of df: the matching rows under accept, the others
\* under reject
LeftByGroup(df, rule_group) ==
    LET mask == build_condition_mask(df, rule_group)
        accept == rule_group[Len(rule_group)].then = "accept"
    IN  Select(df, [k \in 1..Len(df) |-> mask[k] <=> accept])

\* the dataset after the first n of the non-empty groups
RECURSIVE LeftAfter(_, _, _)
LeftAfter(df, groups, n) ==
    IF n = 0 THEN df
    ELSE LeftByGroup(LeftAfter(df, groups, n - 1), groups[n])

\* C23: each rule group is evaluated on the dataset the preceding groups
\* left; stats_after.rows = stats_before.rows - total_rows_removed, each
\* group's rows_remaining is the running row count, and the row count never
\* increases from one group to the next.
C23_CumulativeGroups ==
    c_out # <<>> =>
        LET groups == SelectSeq(c_rules, LAMBDA g : g # <<>>)
            detailed == c_out.rules_results.detailed_results
            running(n) == Len(LeftAfter(c_df, groups, n))
        IN  /\ Len(detailed) = Len(groups)
            /\ c_out.file = LeftAfter(c_df, groups, Len(groups))
            /\ c_out.stats_before.rows = Len(c_df)
            /\ c_out.stats_after.rows =
                   c_out.stats_before.rows - c_out.rules_results.total_rows_removed
            /\ \A n \in 1..Len(groups) :
                  /\ detailed[n].rows_remaining = running(n)
                  /\ detailed[n].rows_removed = running(n - 1) - running(n)
                  /\ running(n) <= running(n - 1)

\* two groups ran, an accept and a reject, and each removed a row
C23_Witness ==
    /\ c_out # <<>>
    /\ Len(c_out.rules_results.detailed_results) = 2
    /\ \A n \in 1..2 : c_out.rules_results.detailed_results[n].rows_removed > 0
    /\ c_out.rules_results.detailed_results[1].rule_type
          # c_out.rules_results.detailed_results[2].rule_type
    /\ c_out.stats_after.rows > 0

\* the numbers a promoted child and its descendants must carry: child 0, its
\* child 1, and so on down the chain, all with root_version_id = new_root
RECURSIVE RenumberedFrom(_, _, _, _)
RenumberedFrom(vs, id, new_root, number) ==
    /\ vs[id].root_version_id = new_root
    /\ vs[id].branch_number = number
    /\ \A c \in Children(vs, id) : RenumberedFrom(vs, c, new_root, number + 1)

\* delete_sub_version deleted N and made its one child a root
Promoted(N, child) ==
    /\ resp'.status = 200
    /\ N \notin DOMAIN versions'
    /\ child \in DOMAIN versions'
    /\ versions'[child].parent_version_id = NoId
    /\ RenumberedFrom(versions', child, child, 0)
    /\ \E i \in 1..Len(rule_application_root_versions') :
          rule_application_root_versions'[i] = child

\* the request of C22: delete_sub_version, delete_children = false, on a live
\* version without parent that has one child
SpliceOfParentless ==
    /\ resp'.op = "delete_sub"
    /\ ~resp'.delete_children
    /\ resp'.arg \in DOMAIN versions
    /\ versions[resp'.arg].parent_version_id = NoId
    /\ Cardinality(Children(versions, resp'.arg)) = 1

C24_LevelEqualsNumber ==
    \A v \in DOMAIN versions : versions[v].branch_level = versions[v].branch_number

\* C25: rule_application_root_versions lists exactly the live versions
\* without parent: every listed id is a live version with no parent and
\* branch_number 0, and every live parentless version is listed.
C25_RootListExact ==
    /\ \A i \in 1..Len(rule_application_root_versions) :
          LET id == rule_application_root_versions[i]
          IN  /\ id \in DOMAIN versions
              /\ versions[id].parent_version_id = NoId
              /\ versions[id].branch_number = 0
    /\ \A v \in DOMAIN versions :
          versions[v].parent_version_id = NoId => InRootList(v)

\* C26: for every parent -> child link the child's stats_before_rule.rows is
\* the parent's stats_after_rule.rows.
C26_ChildStartsFromParent ==
    \A v \in DOMAIN versions :
        versions[v].parent_version_id \in DOMAIN versions
            => versions[v].stats_before_rule
                   = versions[versions[v].parent_version_id].stats_after_rule

\* C27: when two apply_rule_to_existing_version requests for the same
\* childless parent are interleaved step by step, at most one of them creates
\* a child: the parent never has two children.
C27_RaceKeepsOneChild ==
    \A r \in DOMAIN requests :
        Cardinality(Children(versions, requests[r].parent_version_id)) <= 1

\* the parentless version reached from v by following parent links (NoId when
\* a link leaves the store or the walk does not end within fuel steps)
RECURSIVE AncestorRoot(_, _, _)
AncestorRoot(vs, v, fuel) ==
    IF v \notin DOMAIN vs THEN NoId
    ELSE IF vs[v].parent_version_id = NoId THEN v
    ELSE IF fuel = 0 THEN NoId
    ELSE AncestorRoot(vs, vs[v].parent_version_id, fuel - 1)

\* C28: every version's root_version_id is the id of the parentless version
\* reached by following its parent links (a root's is its own id).
C28_RootIsParentlessAncestor ==
    \A v \in DOMAIN versions :
        versions[v].root_version_id = AncestorRoot(versions, v, Cardinality(DOMAIN versions))

\* a parentless version was spliced out and a version created after it heads
\* the chain: it and its child name it as root
C28_Witness ==
    /\ resp.op = "delete_sub"
    /\ resp.status = 200
    /\ ~resp.delete_children
    /\ resp.arg \notin DOMAIN versions
    /\ \E h, c \in DOMAIN versions :
          /\ h # c
          /\ versions[h].parent_version_id = NoId
          /\ versions[c].parent_version_id = h
          /\ versions[c].root_version_id = h
          /\ versions[h].root_version_id = h
          /\ resp.arg < h

\* the temp versions of the partitions load_versions loaded, and of untagged
LoadedTempVersions ==
    {i \in 1..Len(temp_files) :
        \/ temp_files[i].tag_name = UntaggedKey
        \/ TagKey(temp_files[i].tag_name) \in version_map}

\* C29: every temp version persisted for a loaded tag partition or for
\* untagged has rows_count = rows when loaded + rows_added - rows_removed,
\* with the stored counts.
C29_RowsCountIdentity ==
    \A i \in LoadedTempVersions :
        temp_files[i].rows_count
            = Len(split_with_tags[TagKey(temp_files[i].tag_name)].rows)
              + temp_files[i].rows_added - temp_files[i].rows_removed

\* the versions reached from v by following at most fuel parent links
RECURSIVE Ancestors(_, _, _)
Ancestors(vs, v, fuel) ==
    IF fuel = 0 \/ v \notin DOMAIN vs \/ vs[v].parent_version_id = NoId THEN {}
    ELSE {vs[v].parent_version_id}
         \cup Ancestors(vs, vs[v].parent_version_id, fuel - 1)

\* C30: the parent_version_id links are acyclic in every reachable state: no
\* version is reached from itself by following parent links, so a walk along
\* the links visits each version at most once and ends.
C30_ParentLinksAcyclic ==
    \A v \in DOMAIN versions :
        v \notin Ancestors(versions, v, Cardinality(DOMAIN versions))

\* a version was spliced out of the middle of a chain: its child hangs under
\* its parent and has a child of its own
C30_Witness ==
    /\ resp.op = "delete_sub"
    /\ resp.status = 200
    /\ ~resp.delete_children
    /\ \E a, b, c \in DOMAIN versions :
          /\ versions[b].parent_version_id = a
          /\ versions[c].parent_version_id = b
          /\ a < resp.arg
          /\ resp.arg < b

====
